---- MODULE Spec2Model ----
(***************************************************************************)
(* dev-clean: the scanning and classification engine.                      *)
(*                                                                         *)
(*   scanner/detector.rs         ProjectDetector                           *)
(*   scanner/walker.rs           Scanner (parallel walk, rule matching,    *)
(*                               deduplication, matcher cache)             *)
(*   scanner/size_calculator.rs  SizeCalculator (batch streaming, single)  *)
(*                                                                         *)
(* A path is a sequence of names; <<>> is the filesystem root "/".         *)
(* A pattern is the sequence of its "/"-separated segments, so a pattern   *)
(* "contains('/')" exactly when it has more than one segment.              *)
(***************************************************************************)
EXTENDS Integers, Sequences, FiniteSets, TLC

VARIABLES
    files,            \* [Dirs -> SUBSET names]: the plain files of each directory
    ignore_file,      \* [Dirs -> Seq(pattern)]: the patterns of each directory's .gitignore
    meta_fail,        \* directories whose metadata() call fails
    file_fail,        \* directories holding a file whose metadata() call fails
    scanner,          \* the Scanner's configuration fields
    fast_mode,        \* TRUE: scan_with_streaming, FALSE: scan
    history,          \* the scans this Scanner has finished: [fast, targets]
    timer,            \* one calculate_dir_size_with_timeout call, entry by entry
    matcher_cache,    \* Scanner::matcher_cache: key -> id of the cached instance
    stack,            \* the parallel walker's pending directory entries
    cur,              \* the directories now inside a worker's visitor callback
    results,          \* the shared result collector (a Vec)
    visited,          \* directories handed to the visitor so far
    emitted,          \* every ProjectInfo check_directory has returned so far
    phase,            \* "walk", "returned" (scan), "sizing", "streamed"
    returned,         \* scan()'s Ok(Vec)
    total_count,      \* scan_with_streaming()'s usize
    projects,         \* calculate_batch_streaming's Vec<ProjectInfo>
    timeout_secs,     \* SizeCalculator::timeout_secs
    slow_dirs,        \* directories whose traversal outlasts a non-zero timeout
    claimed,          \* indices of projects a rayon worker has taken
    job,              \* the items rayon workers are processing: [ix, pc]
    chan,             \* the unbounded channel's buffer
    tx_alive,         \* the Sender is not dropped yet
    rx_alive,         \* the Receiver is not dropped yet
    sent,             \* [index of projects -> number of tx.send calls made for it]
    send_errors,      \* number of tx.send calls that returned Err (and were ignored)
    disk,             \* trash: [existing path -> what the directory holds]
    cross_device,     \* trash: the trash root is on another device than the originals
    trash_log,        \* trash: the entries of trash_log.jsonl, in file order
    now,              \* trash: Utc::now(), in days
    trash_ret,        \* trash: the last call of the trash module and what it returned
    received,         \* what the consumer has taken from the Receiver
    consumer,         \* "iterating" or "finished"
    completed,        \* the AtomicUsize of calculate_batch_streaming
    batch_ret,        \* calculate_batch_streaming's return value, or None
    single,           \* calculate_single's project, result and call state
    calls             \* [Callers -> state of a matchers_for call]

vars == <<files, ignore_file, meta_fail, file_fail, scanner, fast_mode, history,
          timer, matcher_cache, stack,
          cur, results, visited, emitted, phase, returned, total_count, projects,
          timeout_secs, slow_dirs, claimed, job, chan, tx_alive, rx_alive, sent,
          received, consumer, completed, batch_ret, single, calls, send_errors,
          disk, cross_device, trash_log, now, trash_ret>>

trashVars == <<disk, cross_device, trash_log, now, trash_ret>>
fsVars == <<files, ignore_file, meta_fail, file_fail, scanner, fast_mode, history, timer,
            send_errors, trashVars>>
walkVars == <<stack, cur, results, visited, emitted, returned, total_count>>
sizeVars == <<projects, timeout_secs, slow_dirs, claimed, job, chan, tx_alive,
              rx_alive, sent, received, consumer, completed, batch_ret>>

None == "None"

\* ------------------------------------------------------------------ bounds
NumWorkers == 2
NumSizeWorkers == 2
NumCallers == 3
MaxBatch == 2
MaxScans == 2
MaxCands == 3
MaxClock == 4
MaxLog == 2
MaxNow == 2

Callers == 1..NumCallers

\* ------------------------------------------------------------- filesystem
\* The directories of the bounded filesystem.  /w is the parent of the
\* deeper scan root /w/p, so the walk can be observed at and above its root.
Dirs ==
    { <<>>,
      <<"w">>,
      <<"w", "p">>,
      <<"w", "p", "target">>,
      <<"w", "p", ".venv">>,
      <<"w", "p", ".venv", "__pycache__">>,
      <<"w", "p", "bld">>,
      <<"w", "p", ".git">>,
      <<"w", "p", ".git", "target">> }

Parent(d) == SubSeq(d, 1, Len(d) - 1)

file_name(d) == d[Len(d)]

\* Path::starts_with: whole-component prefix, reflexive.
starts_with(p, base) ==
    /\ Len(base) <= Len(p)
    /\ SubSeq(p, 1, Len(base)) = base

\* Path::strip_prefix followed by normalize_relative_path: the components of
\* dir below parent.
normalize_relative_path(dir, parent) == SubSeq(dir, Len(parent) + 1, Len(dir))

Children(d) == { c \in Dirs : Len(c) = Len(d) + 1 /\ starts_with(c, d) }

\* Path::join(name).exists(): a plain file or a sub-directory of that name.
Exists(d, name) ==
    \/ name \in files[d]
    \/ Append(d, name) \in Dirs

\* Bytes held by the files of one directory (each plain file: 1 byte; every
\* directory also holds payload worth its depth).
OwnBytes(d) == Cardinality(files[d]) + Len(d)

RECURSIVE SumBytes(_)
SumBytes(S) ==
    IF S = {} THEN 0
    ELSE LET d == CHOOSE x \in S : TRUE
         IN OwnBytes(d) + SumBytes(S \ {d})

Subtree(d) == { c \in Dirs : starts_with(c, d) }

\* ------------------------------------------------------- scanner/mod.rs
Categories == {"Cache", "Build", "Deps", "Unknown"}
RiskLevels == {"Low", "Medium", "High"}

\* derive(PartialOrd, Ord) on RiskLevel: Low < Medium < High.
RiskRank(r) == CASE r = "Low" -> 0 [] r = "Medium" -> 1 [] r = "High" -> 2

RuleRef(source, pattern, name) ==
    [source |-> source, pattern |-> pattern, name |-> name]

\* Option<RuleRef>::None
NoRule == RuleRef(None, <<>>, None)

\* Option<T>: <<>> is None, <<x>> is Some(x).
NoneOpt == <<>>
Some(x) == <<x>>
IsSome(o) == Len(o) = 1
Unwrap(o) == o[1]

\* new_pending with the project root stored as the cleanable directory.
new_pending_root_as_dir(root, project_type, cleanable_dir) ==
    [root |-> root,
     project_type |-> project_type,
     project_name |-> None,
     category |-> "Unknown",
     risk_level |-> "Medium",
     confidence |-> "Unknown",
     matched_rule |-> NoRule,
     cleanable_dir |-> root,
     size |-> 0,
     size_calculated |-> FALSE]

\* ProjectInfo::new_pending: defaults, size 0, size not calculated.
new_pending(root, project_type, cleanable_dir) ==
    [root |-> root,
     project_type |-> project_type,
     project_name |-> None,
     category |-> "Unknown",
     risk_level |-> "Medium",
     confidence |-> "Unknown",
     matched_rule |-> NoRule,
     cleanable_dir |-> cleanable_dir,
     size |-> 0,
     size_calculated |-> FALSE]

\* -------------------------------------------------- scanner/detector.rs
\* ProjectDetector::detect: the first ecosystem whose marker is present.
detect(dir) ==
    IF Exists(dir, "package.json") \/ Exists(dir, "package-lock.json") THEN "NodeJs"
    ELSE IF Exists(dir, "Cargo.toml") THEN "Rust"
    ELSE IF \/ Exists(dir, "requirements.txt")
            \/ Exists(dir, "setup.py")
            \/ Exists(dir, "pyproject.toml")
            \/ Exists(dir, "Pipfile") THEN "Python"
    ELSE IF Exists(dir, "pom.xml") THEN "Maven"
    ELSE IF Exists(dir, "build.gradle") \/ Exists(dir, "build.gradle.kts") THEN "Gradle"
    ELSE IF Exists(dir, "go.mod") THEN "Go"
    ELSE IF Exists(dir, "Gemfile") THEN "Ruby"
    ELSE IF Exists(dir, "Package.swift") THEN "Swift"
    ELSE IF Exists(dir, "composer.json") THEN "Php"
    ELSE IF Exists(dir, "mix.exs") THEN "Elixir"
    ELSE IF Exists(dir, "*.csproj") \/ Exists(dir, "*.sln") THEN "DotNet"
    ELSE IF Exists(dir, "CMakeLists.txt") \/ Exists(dir, "Makefile") THEN "Cpp"
    ELSE None

\* ProjectDetector::cleanable_dirs: the built-in patterns, in table order.
cleanable_dirs(project_type) ==
    CASE project_type = "NodeJs" ->
            << <<"node_modules">>, <<".next">>, <<".nuxt">>, <<"dist">>, <<"build">>,
               <<".cache">>, <<".turbo">>, <<".parcel-cache">> >>
      [] project_type = "Rust" -> << <<"target">> >>
      [] project_type = "Python" ->
            << <<".venv">>, <<"venv">>, <<"__pycache__">>, <<".pytest_cache">>,
               <<".mypy_cache">>, <<".tox">>, <<"*.egg-info">>, <<".eggs">>,
               <<"build">>, <<"dist">> >>
      [] project_type \in {"Java", "Maven"} -> << <<"target">>, <<"out">> >>
      [] project_type \in {"Kotlin", "Gradle"} -> << <<"build">>, <<".gradle">>, <<"out">> >>
      [] project_type = "Go" -> << <<"vendor">>, <<"bin">> >>
      [] project_type \in {"C", "Cpp"} ->
            << <<"build">>, <<"cmake-build-debug">>, <<"cmake-build-release">>, <<"out">> >>
      [] project_type = "Ruby" -> << <<"vendor", "bundle">>, <<".bundle">> >>
      [] project_type = "Swift" -> << <<".build">>, <<"DerivedData">>, <<".swiftpm">> >>
      [] project_type = "Php" -> << <<"vendor">> >>
      [] project_type = "Elixir" -> << <<"_build">>, <<"deps">> >>
      [] project_type = "DotNet" -> << <<"bin">>, <<"obj">> >>
      [] OTHER -> << >>

\* ProjectDetector::is_cmake_build_dir: the build cache is there, the
\* project descriptor is not.
is_cmake_build_dir(dir) ==
    Exists(dir, "CMakeCache.txt") /\ ~Exists(dir, "CMakeLists.txt")

\* ProjectDetector::parse_gitignore: the patterns of the root's ignore file.
parse_gitignore(project_root) == ignore_file[project_root]

\* ------------------------------------------------------------ glob model
\* str::to_ascii_lowercase over the names of the model.
to_ascii_lowercase(name) ==
    CASE name = "DerivedData" -> "deriveddata"
      [] OTHER -> name

ends_with_egg_info(name) == name \in {"mypkg.egg-info"}

starts_with_cmake_build(name) == name \in {"cmake-build-debug", "cmake-build-release"}

\* GlobBuilder::build: a segment "[" is an unclosed class and does not compile.
GlobCompiles(pattern) == \A i \in DOMAIN pattern : pattern[i] # "["

\* One segment of a glob against one path component (literal_separator: a
\* star never crosses "/").
SegMatch(seg, name) ==
    \/ seg = "*"
    \/ seg = "*.egg-info" /\ ends_with_egg_info(name)
    \/ seg = name

\* GlobMatcher::is_match of a compiled pattern on a text (a component list).
glob_is_match(pattern, text) ==
    /\ Len(pattern) = Len(text)
    /\ \A i \in DOMAIN pattern : SegMatch(pattern[i], text[i])

\* walker.rs pattern_matches: path-relative patterns are tested on the
\* relative path, the others on the basename; a malformed one matches nothing.
pattern_matches(pattern, basename, relative_path) ==
    LET text == IF Len(pattern) > 1 THEN relative_path ELSE <<basename>>
    IN  IF ~GlobCompiles(pattern) THEN FALSE
        ELSE glob_is_match(pattern, text)

Range(s) == { s[i] : i \in DOMAIN s }

\* build_matchers giving up both glob sets when one pattern does not compile.
build_matchers_all_or_nothing(project_type, project_root) ==
    LET builtin_patterns == cleanable_dirs(project_type)
        gitignore_patterns == parse_gitignore(project_root)
        patterns == Range(builtin_patterns) \cup Range(gitignore_patterns)
        ok == \A p \in patterns : GlobCompiles(p)
    IN  [basename |-> IF ok THEN { p \in patterns : Len(p) <= 1 } ELSE {},
         relative_path |-> IF ok THEN { p \in patterns : Len(p) > 1 } ELSE {},
         builtin_patterns |-> builtin_patterns,
         gitignore_patterns |-> gitignore_patterns]

\* walker.rs build_matchers: built-ins plus the ignore-file patterns not
\* already present, split into the basename set and the relative-path set.
build_matchers(project_type, project_root) ==
    LET builtin_patterns == cleanable_dirs(project_type)
        gitignore_patterns == parse_gitignore(project_root)
        patterns == Range(builtin_patterns) \cup Range(gitignore_patterns)
    IN  [basename |-> { p \in patterns : GlobCompiles(p) /\ Len(p) <= 1 },
         relative_path |-> { p \in patterns : GlobCompiles(p) /\ Len(p) > 1 },
         builtin_patterns |-> builtin_patterns,
         gitignore_patterns |-> gitignore_patterns]

\* CleanableMatchers::matches
matches(m, basename, relative_path) ==
    \/ \E p \in m.basename : glob_is_match(p, <<basename>>)
    \/ \E p \in m.relative_path : glob_is_match(p, relative_path)

\* Index of the first pattern of a list that matches, or 0.
FirstMatch(patterns, basename, relative_path) ==
    LET hits == { i \in DOMAIN patterns :
                    pattern_matches(patterns[i], basename, relative_path) }
    IN  IF hits = {} THEN 0
        ELSE CHOOSE i \in hits : \A j \in hits : i <= j

\* matched_rule looking at the ignore-file patterns before the built-in ones.
matched_rule_gitignore_first(m, basename, relative_path) ==
    LET b == FirstMatch(m.builtin_patterns, basename, relative_path)
        g == FirstMatch(m.gitignore_patterns, basename, relative_path)
    IN  IF g # 0 THEN RuleRef("Gitignore", m.gitignore_patterns[g], None)
        ELSE IF b # 0 THEN RuleRef("Builtin", m.builtin_patterns[b], None)
        ELSE NoRule

\* CleanableMatchers::matched_rule: built-in patterns first, then the
\* ignore-file ones.
matched_rule(m, basename, relative_path) ==
    LET b == FirstMatch(m.builtin_patterns, basename, relative_path)
        g == FirstMatch(m.gitignore_patterns, basename, relative_path)
    IN  IF b # 0 THEN RuleRef("Builtin", m.builtin_patterns[b], None)
        ELSE IF g # 0 THEN RuleRef("Gitignore", m.gitignore_patterns[g], None)
        ELSE NoRule

\* -------------------------------------------------- classification policy
\* walker.rs classify_category
classify_category(basename, relative_path) ==
    LET b == to_ascii_lowercase(basename)
        r == [i \in DOMAIN relative_path |-> to_ascii_lowercase(relative_path[i])]
    IN  IF \/ b \in {"node_modules", ".venv", "venv", "vendor", "deps", ".bundle"}
           \/ (Len(r) >= 2 /\ SubSeq(r, 1, 2) = <<"vendor", "bundle">>)
        THEN "Deps"
        ELSE IF b \in {"__pycache__", ".pytest_cache", ".mypy_cache", ".tox", ".eggs",
                       ".cache", ".turbo", ".parcel-cache"}
        THEN "Cache"
        ELSE IF \/ b \in {"target", "build", "dist", "out", "_build", "deriveddata",
                          ".build", ".next", ".nuxt", "bin", "obj"}
                \/ starts_with_cmake_build(b)
                \/ ends_with_egg_info(b)
        THEN "Build"
        ELSE "Unknown"

default_risk_level(category) ==
    CASE category = "Cache" -> "Low"
      [] category = "Build" -> "Medium"
      [] category = "Deps" -> "High"
      [] category = "Unknown" -> "Medium"

\* risk_for_rule without the override for ignore-file rules.
risk_for_rule_no_override(source, category) == default_risk_level(category)

risk_for_rule(source, category) ==
    IF source = "Gitignore" THEN "High"
    ELSE default_risk_level(category)

confidence_for_rule(source) ==
    CASE source \in {"Custom", "Builtin"} -> "High"
      [] source = "Heuristic" -> "Medium"
      [] source = "Gitignore" -> "Low"

\* walker.rs apply_matched_rule
apply_matched_rule(info, rule, basename, relative_path) ==
    LET category == classify_category(basename, relative_path)
    IN  [info EXCEPT !.category = category,
                     !.risk_level = risk_for_rule(rule.source, category),
                     !.confidence = confidence_for_rule(rule.source),
                     !.matched_rule = rule]

\* --------------------------------------------------- scanner/walker.rs
\* walker.rs calculate_dir_size: the bytes of the files below dir; entries
\* that cannot be read are skipped, a file whose metadata() fails is an error.
ReadableSubtree(dir) ==
    { c \in Subtree(dir) :
        \A k \in Len(dir)..Len(c) : SubSeq(c, 1, k) \notin meta_fail }

calculate_dir_size(dir) ==
    IF ReadableSubtree(dir) \cap file_fail # {} THEN NoneOpt
    ELSE Some(SumBytes(ReadableSubtree(dir)))

\* Scanner::build_project_info_fast: a pending ProjectInfo, or None when the
\* directory's metadata cannot be read.
build_project_info_fast(project_root, project_type, cleanable_dir) ==
    IF cleanable_dir \in meta_fail THEN NoneOpt
    ELSE Some(new_pending(project_root, project_type, cleanable_dir))

\* Scanner::build_project_info: the same with the size computed inline; None
\* also when the size computation fails.
build_project_info(project_root, project_type, cleanable_dir) ==
    LET size == calculate_dir_size(cleanable_dir)
    IN  IF ~IsSome(size) THEN NoneOpt
        ELSE IF cleanable_dir \in meta_fail THEN NoneOpt
        ELSE Some([new_pending(project_root, project_type, cleanable_dir)
                     EXCEPT !.size = Unwrap(size), !.size_calculated = TRUE])

BuildInfo(project_root, project_type, cleanable_dir, fast) ==
    IF fast THEN build_project_info_fast(project_root, project_type, cleanable_dir)
    ELSE build_project_info(project_root, project_type, cleanable_dir)

\* custom_root_matches without the test for an empty marker list: all() of
\* no markers is true.
custom_root_matches_no_empty_check(project_root, custom) ==
    IF custom.marker_mode = "AnyOf"
    THEN \E i \in DOMAIN custom.marker_files :
             Exists(project_root, custom.marker_files[i])
    ELSE \A i \in DOMAIN custom.marker_files :
             Exists(project_root, custom.marker_files[i])

\* walker.rs custom_root_matches
custom_root_matches(project_root, custom) ==
    IF Len(custom.marker_files) = 0 THEN FALSE
    ELSE IF custom.marker_mode = "AnyOf"
         THEN \E i \in DOMAIN custom.marker_files :
                  Exists(project_root, custom.marker_files[i])
         ELSE \A i \in DOMAIN custom.marker_files :
                  Exists(project_root, custom.marker_files[i])

\* The first custom pattern (configuration order) that applies to dir with
\* candidate root parent, or 0.
FirstCustom(dir, parent) ==
    LET cps == scanner.custom_patterns
        rel == normalize_relative_path(dir, parent)
        hits == { i \in DOMAIN cps :
                    /\ custom_root_matches(parent, cps[i])
                    /\ pattern_matches(cps[i].directory, file_name(dir), rel) }
    IN  IF hits = {} THEN 0
        ELSE CHOOSE i \in hits : \A j \in hits : i <= j

\* Lines 399-403: a target without a rule gets its category and the
\* category's default risk.
ClassifiedOnly(info, category) ==
    [info EXCEPT !.category = category, !.risk_level = default_risk_level(category)]

\* Lines 391-404: the matcher matched; the target is built and the rule
\* that matched is applied to it (lines 399-403: no rule, category only).
EcosystemTarget(info, rule, basename, rel) ==
    IF ~IsSome(info) THEN NoneOpt
    ELSE IF rule.source # None
         THEN Some(apply_matched_rule(Unwrap(info), rule, basename, rel))
         ELSE Some(ClassifiedOnly(Unwrap(info), classify_category(basename, rel)))

\* Lines 387-405 for the matchers of the ecosystem detected at parent.
EcosystemMatch(dir, parent, project_type, matchers, rel, fast) ==
    IF ~matches(matchers, file_name(dir), rel) THEN NoneOpt
    ELSE EcosystemTarget(BuildInfo(parent, project_type, dir, fast),
                         matched_rule(matchers, file_name(dir), rel),
                         file_name(dir), rel)

\* Lines 383-406 for the ecosystem detected at parent.
EcosystemFor(dir, parent, project_type, fast) ==
    IF project_type = None THEN NoneOpt
    ELSE EcosystemMatch(dir, parent, project_type,
                        build_matchers(project_type, parent),
                        normalize_relative_path(dir, parent), fast)

\* The ecosystem branch of the rule loop at one ancestor (lines 383-407).
EcosystemInfo(dir, parent, fast) == EcosystemFor(dir, parent, detect(parent), fast)

\* Lines 368-380: the target of custom pattern custom, when it can be built.
CustomTarget(info, custom, basename, rel) ==
    IF ~IsSome(info) THEN NoneOpt
    ELSE Some([apply_matched_rule(Unwrap(info),
                                  RuleRef("Custom", custom.directory, custom.name),
                                  basename, rel)
                 EXCEPT !.project_name = custom.name])

\* Lines 356-381 for the first custom pattern that applies, c (0: none).
CustomFor(dir, parent, c, fast) ==
    IF c = 0 THEN NoneOpt
    ELSE CustomTarget(BuildInfo(parent, "Generic", dir, fast),
                      scanner.custom_patterns[c],
                      file_name(dir), normalize_relative_path(dir, parent))

\* The custom branch of the rule loop at one ancestor (lines 356-381).
CustomInfo(dir, parent, fast) == CustomFor(dir, parent, FirstCustom(dir, parent), fast)

\* The ancestors the rule loop uses as candidate project roots, nearest
\* first: the loop takes current.parent(), uses it, and only then tests
\* whether it still lies under the scan root (lines 352-414).
RECURSIVE RuleLoopRoots(_)
RuleLoopRoots(current) ==
    IF Len(current) = 0 THEN << >>
    ELSE IF ~starts_with(Parent(current), scanner.root) THEN << Parent(current) >>
    ELSE << Parent(current) >> \o RuleLoopRoots(Parent(current))

\* The (root, ecosystem) pair handed to matchers_for at a candidate root.
KeysFor(parent, project_type) ==
    IF project_type = None THEN {} ELSE { <<parent, project_type>> }

\* The custom target if there is one, else the ecosystem's.
CustomThenEcosystem(custom, eco, keys) ==
    IF IsSome(custom) THEN [info |-> custom, keys |-> {}]
    ELSE [info |-> eco, keys |-> keys]

\* The ecosystem's target if there is one, else the custom one.
EcosystemThenCustom(custom, eco, keys) ==
    IF IsSome(eco) THEN [info |-> eco, keys |-> keys]
    ELSE [info |-> custom, keys |-> keys]

\* AtAncestor with the ecosystem matcher consulted before the custom patterns.
AtAncestor_ecosystem_first(dir, parent, fast) ==
    EcosystemThenCustom(CustomInfo(dir, parent, fast),
                        EcosystemInfo(dir, parent, fast),
                        KeysFor(parent, detect(parent)))

\* One iteration of the rule loop at candidate root parent: the custom
\* patterns first (lines 355-381), then the ecosystem matcher (lines
\* 383-407).  keys: the (root, ecosystem) pair handed to matchers_for.
AtAncestor(dir, parent, fast) ==
    CustomThenEcosystem(CustomInfo(dir, parent, fast),
                        EcosystemInfo(dir, parent, fast),
                        KeysFor(parent, detect(parent)))

\* The outcome of the rest of the loop, with the matchers_for calls made at
\* the nearer ancestor.
AfterAncestor(here, rest) == [info |-> rest.info, keys |-> here.keys \cup rest.keys]

\* The rule loop of check_directory_impl: the first ancestor, nearest first,
\* at which a custom pattern or else the ecosystem matcher yields a target.
RECURSIVE rule_loop(_, _, _)
\* The rule loop preferring the match of a farther ancestor to the match
\* at hand.
RuleLoopFrom_farthest_wins(here, dir, roots, fast) ==
    IF IsSome(rule_loop(dir, Tail(roots), fast).info)
    THEN AfterAncestor(here, rule_loop(dir, Tail(roots), fast))
    ELSE here

RuleLoopFrom(here, dir, roots, fast) ==
    IF IsSome(here.info) THEN here
    ELSE AfterAncestor(here, rule_loop(dir, Tail(roots), fast))

rule_loop(dir, roots, fast) ==
    IF Len(roots) = 0 THEN [info |-> NoneOpt, keys |-> {}]
    ELSE RuleLoopFrom(AtAncestor(dir, Head(roots), fast), dir, roots, fast)

\* The ancestors the CMake search tests for CMakeLists.txt, nearest first
\* (lines 421-450): same shape of loop as the rule loop.
RECURSIVE CMakeSearchRoots(_)
CMakeSearchRoots(search_path) ==
    IF Len(search_path) = 0 THEN << >>
    ELSE IF Exists(Parent(search_path), "CMakeLists.txt") THEN << Parent(search_path) >>
    ELSE IF ~starts_with(Parent(search_path), scanner.root) THEN << Parent(search_path) >>
    ELSE << Parent(search_path) >> \o CMakeSearchRoots(Parent(search_path))

\* Lines 426-443: the target of the heuristic, when it can be built.
CMakeTarget(info) ==
    IF ~IsSome(info) THEN NoneOpt
    ELSE Some([Unwrap(info) EXCEPT
                 !.category = "Build",
                 !.risk_level = "Medium",
                 !.confidence = "Medium",
                 !.matched_rule =
                     RuleRef("Heuristic", <<"cmake-out-of-source-build">>, None)])

\* Lines 421-450 for the ancestors the search went through.
CMakeFrom(dir, roots, fast) ==
    IF Len(roots) = 0 THEN NoneOpt
    ELSE IF ~Exists(roots[Len(roots)], "CMakeLists.txt") THEN NoneOpt
    ELSE CMakeTarget(BuildInfo(roots[Len(roots)], "Cpp", dir, fast))

\* The CMake out-of-source heuristic (lines 419-451).
cmake_heuristic(dir, fast) ==
    IF ~is_cmake_build_dir(dir) THEN NoneOpt
    ELSE CMakeFrom(dir, CMakeSearchRoots(dir), fast)

\* Lines 416-453: what follows a rule loop that ended as r.
AfterRuleLoop(r, dir, fast) ==
    IF IsSome(r.info) THEN r
    ELSE [info |-> cmake_heuristic(dir, fast), keys |-> r.keys]

\* Scanner::check_directory_impl
check_directory_impl(dir, fast) ==
    IF Len(dir) = 0 THEN [info |-> NoneOpt, keys |-> {}]
    ELSE AfterRuleLoop(rule_loop(dir, RuleLoopRoots(dir), fast), dir, fast)

\* Scanner::passes_filters
passes_filters(info) ==
    /\ ~( /\ IsSome(scanner.min_size)
          /\ info.size_calculated
          /\ info.size < Unwrap(scanner.min_size) )
    /\ ~( /\ scanner.category_filter # None
          /\ info.category # scanner.category_filter )
    /\ ~( /\ scanner.max_risk # None
          /\ RiskRank(info.risk_level) > RiskRank(scanner.max_risk) )

\* deduplicate_nested_dirs without the skip of the self-comparison: every
\* path starts with itself.
deduplicate_nested_dirs_no_self_skip(rs) ==
    LET is_nested(i) ==
            \E j \in DOMAIN rs : starts_with(rs[i].cleanable_dir, rs[j].cleanable_dir)
        deduplicated[i \in 0..Len(rs)] ==
            IF i = 0 THEN << >>
            ELSE IF is_nested(i) THEN deduplicated[i - 1]
            ELSE Append(deduplicated[i - 1], rs[i])
    IN  deduplicated[Len(rs)]

\* Scanner::deduplicate_nested_dirs: keep, in order, every entry that is not
\* below another entry's cleanable_dir (an entry with the same path is
\* skipped as "self").
deduplicate_nested_dirs(rs) ==
    LET is_nested(i) ==
            \E j \in DOMAIN rs :
                /\ rs[i].cleanable_dir # rs[j].cleanable_dir
                /\ starts_with(rs[i].cleanable_dir, rs[j].cleanable_dir)
        deduplicated[i \in 0..Len(rs)] ==
            IF i = 0 THEN << >>
            ELSE IF is_nested(i) THEN deduplicated[i - 1]
            ELSE Append(deduplicated[i - 1], rs[i])
    IN  deduplicated[Len(rs)]

\* final_results.sort_by(|a, b| b.size.cmp(&a.size)): a stable sort, largest
\* size first.
RECURSIVE InsertBySize(_, _)
InsertBySize(sorted, x) ==
    IF Len(sorted) = 0 THEN << x >>
    ELSE IF Head(sorted).size >= x.size
         THEN << Head(sorted) >> \o InsertBySize(Tail(sorted), x)
         ELSE << x >> \o sorted

RECURSIVE sort_by_size_desc(_)
sort_by_size_desc(rs) ==
    IF Len(rs) = 0 THEN << >>
    ELSE InsertBySize(sort_by_size_desc(SubSeq(rs, 1, Len(rs) - 1)), rs[Len(rs)])

\* ------------------------------------------------------------ the walk
\* filter_entry testing the excluded basenames only.
filter_entry_exclude_dirs_only(d) == file_name(d) \notin scanner.exclude_dirs

\* filter_entry (lines 163-168): entries below the root whose name is a VCS
\* directory or an excluded basename are neither visited nor descended.
filter_entry(d) ==
    /\ file_name(d) \notin {".git", ".svn", ".hg"}
    /\ file_name(d) \notin scanner.exclude_dirs

\* A free worker takes a directory entry off the walker's stack.  Workers
\* are interchangeable: cur holds the directories now inside a visitor
\* callback, at most one per worker.
Take ==
    /\ phase = "walk"
    /\ Cardinality(cur) < NumWorkers
    /\ \E d \in stack :
        /\ stack' = stack \ {d}
        /\ cur' = cur \cup {d}
        /\ visited' = visited \cup {d}
    /\ UNCHANGED <<fsVars, matcher_cache, results, emitted, phase, returned,
                   total_count, sizeVars, single, calls>>

\* An instance built by a worker of the walk (which worker is not recorded).
WalkerInstance == [by |-> -1]

\* The instances matchers_for leaves in the cache after being called for keys.
CacheAfter(keys) ==
    [k \in DOMAIN matcher_cache \cup keys |->
        IF k \in DOMAIN matcher_cache THEN matcher_cache[k]
        ELSE WalkerInstance]

\* The visitor closure answering Skip only for a directory it collects: a
\* classified directory the filters reject is descended into.
WalkStateFor_continue_when_rejected(info) ==
    IF IsSome(info) /\ passes_filters(Unwrap(info)) THEN "Skip" ELSE "Continue"

\* The visitor closure answering Continue for every directory.
WalkStateFor_always_continue(info) == "Continue"

\* What the visitor closure answers for a directory: Skip once it is
\* classified, whether or not it passes the filters; Continue otherwise.
WalkStateFor(info) == IF IsSome(info) THEN "Skip" ELSE "Continue"

\* Collect pushing without the collector's lock: a push made while another
\* worker is inside its callback is lost.
Collect_unlocked_push(dir, info) ==
    /\ IF IsSome(info)
       THEN /\ results' = IF passes_filters(Unwrap(info)) /\ cur = {dir}
                          THEN Append(results, Unwrap(info))
                          ELSE results
            /\ emitted' = emitted \cup {Unwrap(info)}
       ELSE UNCHANGED <<results, emitted>>
    /\ stack' = IF WalkStateFor(info) = "Skip" THEN stack
                ELSE stack \cup { c \in Children(dir) : filter_entry(c) }

\* Lines 188-199 for a directory whose check_directory outcome is info: a
\* classified directory is collected if it passes the filters and is not
\* descended into (Skip); any other directory is descended into (Continue).
Collect(dir, info) ==
    /\ IF IsSome(info)
       THEN /\ results' = IF passes_filters(Unwrap(info))
                          THEN Append(results, Unwrap(info))
                          ELSE results
            /\ emitted' = emitted \cup {Unwrap(info)}
       ELSE UNCHANGED <<results, emitted>>
    /\ stack' = IF WalkStateFor(info) = "Skip" THEN stack
                ELSE stack \cup { c \in Children(dir) : filter_entry(c) }

\* Lines 181-188: an entry that is an error (a root that does not exist) or
\* is not a directory is passed over with Continue.
EntryIsDir(dir) == dir \in Dirs

VisitWith(dir, r) ==
    /\ matcher_cache' = CacheAfter(r.keys)
    /\ Collect(dir, r.info)

\* The visitor closure of scan / scan_with_streaming (lines 180-200,
\* 264-286) on a directory a worker holds.
Visit(dir) ==
    /\ phase = "walk"
    /\ dir \in cur
    /\ IF EntryIsDir(dir)
       THEN VisitWith(dir, check_directory_impl(dir, fast_mode))
       ELSE UNCHANGED <<matcher_cache, results, emitted, stack>>
    /\ cur' = cur \ {dir}
    /\ UNCHANGED <<fsVars, visited, phase, returned, total_count, sizeVars,
                   single, calls>>

WalkOver == stack = {} /\ cur = {}

\* The end of scan (lines 203-212): deduplicate, sort, return.
ScanReturn ==
    /\ phase = "walk"
    /\ ~fast_mode
    /\ WalkOver
    /\ returned' = sort_by_size_desc(deduplicate_nested_dirs(results))
    /\ phase' = "returned"
    /\ UNCHANGED <<fsVars, matcher_cache, stack, cur, results, visited, emitted,
                   total_count, sizeVars, single, calls>>

\* ------------------------------------------- scanner/size_calculator.rs
\* SizeCalculator::new: the default per-item timeout, in seconds.
DefaultTimeoutSecs == 60

Ok(size) == [ok |-> TRUE, size |-> size, err |-> None]
Err(what) == [ok |-> FALSE, size |-> 0, err |-> what]

\* calculate_dir_size_with_timeout with a failing file counted as 0 bytes
\* instead of ending the computation with an error.
calculate_dir_size_with_timeout_skips_errors(dir, timeout) ==
    IF timeout = 0 THEN Err("timeout")
    ELSE IF dir \in slow_dirs THEN Err("timeout")
    ELSE Ok(SumBytes(ReadableSubtree(dir) \ file_fail))

\* calculate_dir_size_with_timeout: a zero timeout is an error at once; a
\* traversal that outlasts the timeout is an error at the check that sees
\* it; a file whose metadata() fails is an error; otherwise the total.
calculate_dir_size_with_timeout(dir, timeout) ==
    IF timeout = 0 THEN Err("timeout")
    ELSE IF dir \in slow_dirs THEN Err("timeout")
    ELSE IF ReadableSubtree(dir) \cap file_fail # {} THEN Err("io")
    ELSE Ok(SumBytes(ReadableSubtree(dir)))

\* The end of scan_with_streaming (lines 289-305): deduplicate, count, open
\* the channel and hand the pending projects to the background thread.
StreamReturn ==
    /\ phase = "walk"
    /\ fast_mode
    /\ WalkOver
    /\ projects' = deduplicate_nested_dirs(results)
    /\ total_count' = Len(projects')
    /\ timeout_secs' = DefaultTimeoutSecs
    /\ sent' = [i \in DOMAIN projects' |-> 0]
    /\ phase' = "sizing"
    /\ UNCHANGED <<fsVars, matcher_cache, stack, cur, results, visited, emitted,
                   returned, slow_dirs, claimed, job, chan, tx_alive, rx_alive,
                   received, consumer, completed, batch_ret, single, calls>>

\* par_iter_mut().for_each: a free rayon worker takes one project nobody
\* took.  Workers are interchangeable: job holds the items in progress, at
\* most one per worker.
SizeTake ==
    /\ phase = "sizing"
    /\ Cardinality(job) < NumSizeWorkers
    /\ \E i \in DOMAIN projects \ claimed :
        /\ claimed' = claimed \cup {i}
        /\ job' = job \cup {[ix |-> i, pc |-> "calc"]}
    /\ UNCHANGED <<fsVars, matcher_cache, walkVars, phase, projects, timeout_secs,
                   slow_dirs, chan, tx_alive, rx_alive, sent, received, consumer,
                   completed, batch_ret, single, calls>>

\* The closure leaving the project untouched when its size computation fails.
SizedProject_error_stays_pending(project, r) ==
    IF r.ok THEN [project EXCEPT !.size = r.size, !.size_calculated = TRUE]
    ELSE project

\* The closure's update of one project from the outcome of its size
\* computation (lines 49-53, 59-63).
SizedProject(project, r) ==
    [project EXCEPT !.size = IF r.ok THEN r.size ELSE 0,
                    !.size_calculated = TRUE]

\* The size computation and the update of the project.
SizeCalc(i) ==
    /\ phase = "sizing"
    /\ [ix |-> i, pc |-> "calc"] \in job
    /\ LET r == calculate_dir_size_with_timeout(projects[i].cleanable_dir, timeout_secs)
       IN  /\ projects' = [projects EXCEPT ![i] = SizedProject(projects[i], r)]
           /\ completed' = IF r.ok THEN completed + 1 ELSE completed
    /\ job' = (job \ {[ix |-> i, pc |-> "calc"]}) \cup {[ix |-> i, pc |-> "send"]}
    /\ UNCHANGED <<fsVars, matcher_cache, walkVars, phase, timeout_secs, slow_dirs,
                   claimed, chan, tx_alive, rx_alive, sent, received, consumer,
                   batch_ret, single, calls>>

\* tx.send waiting for a receiver instead of returning Err when there is none.
SizeSend_blocks_without_receiver(i) ==
    /\ phase = "sizing"
    /\ rx_alive
    /\ [ix |-> i, pc |-> "send"] \in job
    /\ sent' = [sent EXCEPT ![i] = @ + 1]
    /\ chan' = Append(chan, projects[i])
    /\ job' = job \ {[ix |-> i, pc |-> "send"]}
    /\ UNCHANGED <<fsVars, matcher_cache, walkVars, phase, projects, timeout_secs,
                   slow_dirs, claimed, tx_alive, rx_alive, received, consumer,
                   completed, batch_ret, single, calls>>

\* let _ = tx.send(project.clone()) (lines 57, 64): the clone joins the
\* channel unless the receiver is gone, in which case the error is ignored.
SizeSend(i) ==
    /\ phase = "sizing"
    /\ [ix |-> i, pc |-> "send"] \in job
    /\ sent' = [sent EXCEPT ![i] = @ + 1]
    /\ chan' = IF rx_alive THEN Append(chan, projects[i]) ELSE chan
    /\ send_errors' = IF rx_alive THEN send_errors ELSE send_errors + 1
    /\ job' = job \ {[ix |-> i, pc |-> "send"]}
    /\ UNCHANGED <<files, ignore_file, meta_fail, file_fail, scanner, fast_mode,
                   history, timer, trashVars, matcher_cache, walkVars, phase, projects,
                   timeout_secs, slow_dirs, claimed, tx_alive, rx_alive, received,
                   consumer, completed, batch_ret, single, calls>>

\* calculate_batch_streaming returning while a clone of the Sender stays alive.
BatchReturn_sender_kept ==
    /\ phase = "sizing"
    /\ claimed = DOMAIN projects
    /\ job = {}
    /\ batch_ret' = Some(completed)
    /\ phase' = "streamed"
    /\ UNCHANGED <<fsVars, matcher_cache, walkVars, projects, timeout_secs,
                   slow_dirs, claimed, job, chan, tx_alive, rx_alive, sent, received,
                   consumer, completed, single, calls>>

\* for_each has joined every item: calculate_batch_streaming returns the
\* counter (line 69) and its Sender is dropped.
BatchReturn ==
    /\ phase = "sizing"
    /\ claimed = DOMAIN projects
    /\ job = {}
    /\ batch_ret' = Some(completed)
    /\ tx_alive' = FALSE
    /\ phase' = "streamed"
    /\ UNCHANGED <<fsVars, matcher_cache, walkVars, projects, timeout_secs,
                   slow_dirs, claimed, job, chan, rx_alive, sent, received,
                   consumer, completed, single, calls>>

\* The consumer's rx.iter(): one message.
Recv ==
    /\ phase \in {"sizing", "streamed"}
    /\ consumer = "iterating"
    /\ Len(chan) > 0
    /\ received' = Append(received, Head(chan))
    /\ chan' = Tail(chan)
    /\ UNCHANGED <<fsVars, matcher_cache, walkVars, phase, projects, timeout_secs,
                   slow_dirs, claimed, job, tx_alive, rx_alive, sent, consumer,
                   completed, batch_ret, single, calls>>

\* rx.iter() ends: the channel is empty and disconnected.
RecvEnd ==
    /\ phase \in {"sizing", "streamed"}
    /\ consumer = "iterating"
    /\ Len(chan) = 0
    /\ ~tx_alive
    /\ consumer' = "finished"
    /\ UNCHANGED <<fsVars, matcher_cache, walkVars, phase, projects, timeout_secs,
                   slow_dirs, claimed, job, chan, tx_alive, rx_alive, sent,
                   received, completed, batch_ret, single, calls>>

\* The consumer stops draining and drops the Receiver.
DropReceiver ==
    /\ phase \in {"sizing", "streamed"}
    /\ consumer = "iterating"
    /\ rx_alive' = FALSE
    /\ consumer' = "dropped"
    /\ chan' = << >>
    /\ UNCHANGED <<fsVars, matcher_cache, walkVars, phase, projects, timeout_secs,
                   slow_dirs, claimed, job, tx_alive, sent, received, completed,
                   batch_ret, single, calls>>

\* calculate_dir_size_with_timeout entry by entry, with the clock
\* (Instant::now() / start.elapsed(), in seconds).  The timeout is looked at
\* once every CheckEvery entries and once after the loop (lines 106-109,
\* 116-120); reading an entry takes a time the filesystem decides.
CheckEvery == 256

NoTimer == [pc |-> "off", entries |-> 0, checked_entries |-> 0, elapsed |-> 0,
            result |-> Err(None)]

\* Lines 93-97: a zero timeout is an error before anything is read.
TimerStart ==
    /\ timer.pc = "start"
    /\ timer' = IF timeout_secs = 0
                THEN [timer EXCEPT !.pc = "done", !.result = Err("timeout")]
                ELSE [timer EXCEPT !.pc = "loop"]
    /\ UNCHANGED <<files, ignore_file, meta_fail, file_fail, scanner, fast_mode,
                   history, send_errors, trashVars, matcher_cache, walkVars, phase,
                   sizeVars,
                   single, calls>>

\* Lines 100-114: one entry of the traversal.  Every CheckEvery-th entry the
\* elapsed time is compared with the timeout; otherwise (and after a check
\* that passes) the entry is read, which takes cost seconds.
TimerEntry ==
    /\ timer.pc = "loop"
    /\ timer.checked_entries < timer.entries
    /\ \E cost \in {0, 1} :
        /\ timer.elapsed + cost <= MaxClock
        /\ timer' =
              IF /\ (timer.checked_entries + 1) % CheckEvery = 0
                 /\ timer.elapsed >= timeout_secs
              THEN [timer EXCEPT !.checked_entries = @ + 1, !.pc = "done",
                                 !.result = Err("timeout")]
              ELSE [timer EXCEPT !.checked_entries = @ + 1, !.elapsed = @ + cost]
    /\ UNCHANGED <<files, ignore_file, meta_fail, file_fail, scanner, fast_mode,
                   history, send_errors, trashVars, matcher_cache, walkVars, phase,
                   sizeVars,
                   single, calls>>

\* The end of the traversal without the last comparison: the total is
\* returned whatever time has passed.
TimerEnd_no_final_check ==
    /\ timer.pc = "loop"
    /\ timer.checked_entries = timer.entries
    /\ timer' = [timer EXCEPT !.pc = "done", !.result = Ok(timer.entries)]
    /\ UNCHANGED <<files, ignore_file, meta_fail, file_fail, scanner, fast_mode,
                   history, send_errors, trashVars, matcher_cache, walkVars, phase,
                   sizeVars, single, calls>>

\* Lines 116-120: the traversal is over; the elapsed time is compared with
\* the timeout once more.
TimerEnd ==
    /\ timer.pc = "loop"
    /\ timer.checked_entries = timer.entries
    /\ timer' = [timer EXCEPT !.pc = "done",
                              !.result = IF timer.elapsed >= timeout_secs
                                         THEN Err("timeout")
                                         ELSE Ok(timer.entries)]
    /\ UNCHANGED <<files, ignore_file, meta_fail, file_fail, scanner, fast_mode,
                   history, send_errors, trashVars, matcher_cache, walkVars, phase,
                   sizeVars,
                   single, calls>>

\* calculate_single marking the project as sized with size 0 on an error, the
\* way the batch path does.
calculate_single_marks_on_error(project, timeout) ==
    LET r == calculate_dir_size_with_timeout(project.cleanable_dir, timeout)
    IN  [project |-> [project EXCEPT !.size = r.size, !.size_calculated = TRUE],
         result |-> r]

\* SizeCalculator::calculate_single (lines 76-82): the error of the size
\* computation is returned before the project is touched.
calculate_single(project, timeout) ==
    LET r == calculate_dir_size_with_timeout(project.cleanable_dir, timeout)
    IN  IF ~r.ok THEN [project |-> project, result |-> r]
        ELSE [project |-> [project EXCEPT !.size = r.size, !.size_calculated = TRUE],
              result |-> Ok(r.size)]

CalculateSingle ==
    /\ single.pc = "ready"
    /\ LET out == calculate_single(single.project, timeout_secs)
       IN  single' = [pc |-> "done", before |-> single.project,
                      project |-> out.project, result |-> out.result]
    /\ UNCHANGED <<fsVars, matcher_cache, walkVars, phase, sizeVars, calls>>

\* ------------------------------------------------ Scanner::matchers_for
\* cache.insert(key, built): the instance just built replaces any entry.
entry_insert_overwrite(cache, key, built) ==
    [k \in DOMAIN cache \cup {key} |-> IF k = key THEN built ELSE cache[k]]

\* cache.entry(key).or_insert_with(|| built) (line 472): an existing entry
\* stays, a vacant one takes the instance just built.
entry_or_insert_with(cache, key, built) ==
    IF key \in DOMAIN cache THEN cache
    ELSE [k \in DOMAIN cache \cup {key} |-> IF k = key THEN built ELSE cache[k]]

\* The keys worker threads ask matchers_for about.
CacheKeys == { << <<"w">>, "Rust" >>, << <<"w", "p">>, "Python" >> }

NoInstance == [by |-> 0]

\* A worker thread enters matchers_for(project_type, project_root).
CallStart(c) ==
    /\ calls[c].pc = "idle"
    /\ \E key \in CacheKeys :
        calls' = [calls EXCEPT ![c] = [pc |-> "lookup", key |-> key,
                                       built |-> NoInstance, ret |-> NoInstance]]
    /\ UNCHANGED <<fsVars, matcher_cache, walkVars, phase, sizeVars, single>>

\* The fast path (lines 464-466): under the lock, a hit is returned.
CallLookup(c) ==
    /\ calls[c].pc = "lookup"
    /\ calls' = [calls EXCEPT ![c] =
                    IF calls[c].key \in DOMAIN matcher_cache
                    THEN [@ EXCEPT !.pc = "done", !.ret = matcher_cache[calls[c].key]]
                    ELSE [@ EXCEPT !.pc = "build"]]
    /\ UNCHANGED <<fsVars, matcher_cache, walkVars, phase, sizeVars, single>>

\* The matcher is built outside the lock (line 469).
CallBuild(c) ==
    /\ calls[c].pc = "build"
    /\ calls' = [calls EXCEPT ![c] = [@ EXCEPT !.pc = "insert", !.built = [by |-> c]]]
    /\ UNCHANGED <<fsVars, matcher_cache, walkVars, phase, sizeVars, single>>

\* Under the lock again, the entry is filled if vacant and whatever it holds
\* is returned (lines 471-472).
CallInsert(c) ==
    /\ calls[c].pc = "insert"
    /\ matcher_cache' = entry_or_insert_with(matcher_cache, calls[c].key, calls[c].built)
    /\ calls' = [calls EXCEPT ![c] = [@ EXCEPT !.pc = "done",
                                                !.ret = matcher_cache'[calls[c].key]]]
    /\ UNCHANGED <<fsVars, walkVars, phase, sizeVars, single>>

\* ------------------------------------------------------- initial states
Unity ==
    [name |-> "Unity", directory |-> <<"target">>,
     marker_files |-> <<"Assets">>, marker_mode |-> "AnyOf"]

NewScanner(root, custom_patterns) ==
    [root |-> root,
     custom_patterns |-> custom_patterns,
     exclude_dirs |-> {},
     min_size |-> NoneOpt,
     category_filter |-> None,
     max_risk |-> None]

Layout(w, p, b) ==
    [d \in Dirs |->
        IF d = <<"w">> THEN w
        ELSE IF d = <<"w", "p">> THEN p
        ELSE IF d = <<"w", "p", "bld">> THEN b
        ELSE {}]

IgnoreAt(d0, patterns) == [d \in Dirs |-> IF d = d0 THEN patterns ELSE << >>]

NoSingle ==
    [pc |-> "off", before |-> new_pending(<<>>, None, <<>>),
     project |-> new_pending(<<>>, None, <<>>), result |-> Err(None)]

\* The trash module is not in use.
NoTrashCall == [op |-> "none"]

NoTrash ==
    /\ disk = << >>
    /\ cross_device = FALSE
    /\ trash_log = << >>
    /\ now = 0
    /\ trash_ret = NoTrashCall

\* No walk in progress, nothing found yet.
WalkInit(root) ==
    /\ matcher_cache = << >>
    /\ stack = {root}
    /\ cur = {}
    /\ results = << >>
    /\ visited = {}
    /\ emitted = {}
    /\ returned = << >>
    /\ total_count = 0

\* No size computation in progress; the channel is open and empty.
SizeInit(ps, t) ==
    /\ projects = ps
    /\ timeout_secs = t
    /\ claimed = {}
    /\ job = {}
    /\ chan = << >>
    /\ tx_alive = TRUE
    /\ rx_alive = TRUE
    /\ sent = [i \in DOMAIN ps |-> 0]
    /\ received = << >>
    /\ consumer = "iterating"
    /\ completed = 0
    /\ batch_ret = NoneOpt

CallsInit == calls = [c \in Callers |-> [pc |-> "off", key |-> << <<>>, None >>,
                                          built |-> NoInstance, ret |-> NoInstance]]

WMarkers == { {}, {"Cargo.toml"}, {"pyproject.toml"}, {"Assets"} }
PMarkers == { {}, {"Cargo.toml"}, {"pyproject.toml"}, {"CMakeLists.txt"},
              {"Cargo.toml", "Assets"} }
BMarkers == { {}, {"CMakeCache.txt"}, {"CMakeCache.txt", "CMakeLists.txt"} }
IgnoreChoices == { << >>, << <<"bld">> >> }
ScanRoots == { <<"w">>, <<"w", "p">> }
CustomChoices == { << >>, << Unity >> }
FailChoices ==
    { [meta |-> {}, file |-> {}],
      [meta |-> { <<"w", "p", ".venv">> }, file |-> {}],
      [meta |-> {}, file |-> { <<"w", "p", "target">> }] }

\* Scanner::new(root) with custom patterns, before scan() or
\* scan_with_streaming() starts walking.
InitScan ==
    /\ history = << >>
    /\ send_errors = 0
    /\ NoTrash
    /\ timer = NoTimer
    /\ \E w \in WMarkers, p \in PMarkers, b \in BMarkers : files = Layout(w, p, b)
    /\ \E ig \in IgnoreChoices :
        /\ ig # << >> => detect(<<"w", "p">>) # None
        /\ ignore_file = IgnoreAt(<<"w", "p">>, ig)
    /\ \E f \in FailChoices : meta_fail = f.meta /\ file_fail = f.file
    /\ \E root \in ScanRoots, cps \in CustomChoices :
        /\ cps # << >> => \E d \in Dirs : "Assets" \in files[d]
        /\ scanner = NewScanner(root, cps)
        /\ WalkInit(root)
    /\ fast_mode \in BOOLEAN
    /\ phase = "walk"
    /\ slow_dirs = {}
    /\ SizeInit(<< >>, DefaultTimeoutSecs)
    /\ single = NoSingle
    /\ CallsInit

NextScan ==
    \/ Take
    \/ \E d \in Dirs : Visit(d)
    \/ ScanReturn
    \/ StreamReturn

SpecScan == InitScan /\ [][NextScan]_vars

\* The caller runs scan() or scan_with_streaming() once more on the same
\* Scanner after the previous call returned (lines 152-178, 237-262): a new
\* result collector and a new walker from the root.  Neither entry point
\* touches matcher_cache, which lives as long as the Scanner (lines 73, 97).
ScanAgain ==
    /\ phase \in {"returned", "sizing"}
    /\ Len(history) + 1 < MaxScans
    /\ history' = Append(history, [fast |-> fast_mode,
                                    targets |-> IF fast_mode THEN projects ELSE returned])
    /\ fast_mode' \in BOOLEAN
    /\ phase' = "walk"
    /\ stack' = {scanner.root}
    /\ cur' = {}
    /\ results' = << >>
    /\ visited' = {}
    /\ emitted' = {}
    /\ returned' = << >>
    /\ total_count' = 0
    /\ UNCHANGED <<files, ignore_file, meta_fail, file_fail, scanner, timer,
                   send_errors, trashVars,
                   matcher_cache, sizeVars, single, calls>>

\* Several scans of one unmodified tree by one Scanner.
RescanW == { {}, {"pyproject.toml"} }
RescanP == { {"Cargo.toml"}, {"pyproject.toml"}, {"CMakeLists.txt"} }

\* A scan root that exists and one that does not.
RescanRoots == { <<"w">>, <<"gone">> }

InitRescan ==
    /\ history = << >>
    /\ send_errors = 0
    /\ NoTrash
    /\ timer = NoTimer
    /\ \E w \in RescanW, p \in RescanP : files = Layout(w, p, {"CMakeCache.txt"})
    /\ ignore_file = IgnoreAt(<<"w", "p">>, << >>)
    /\ \E f \in FailChoices : meta_fail = f.meta /\ file_fail = f.file
    /\ \E root \in RescanRoots : scanner = NewScanner(root, << >>) /\ WalkInit(root)
    /\ fast_mode \in BOOLEAN
    /\ phase = "walk"
    /\ slow_dirs = {}
    /\ SizeInit(<< >>, DefaultTimeoutSecs)
    /\ single = NoSingle
    /\ CallsInit

NextRescan ==
    \/ Take
    \/ \E d \in cur : Visit(d)
    \/ ScanReturn
    \/ StreamReturn
    \/ ScanAgain

SpecRescan == InitRescan /\ [][NextRescan]_vars

\* scan_with_streaming() end to end: the fast walk, the background size
\* computation and a consumer of the returned Receiver.
StreamW == { {}, {"pyproject.toml"} }
StreamP == { {"Cargo.toml"}, {"pyproject.toml"}, {"CMakeLists.txt"} }
StreamSlow == { {}, { <<"w", "p", "target">> } }
StreamFileFail == { {}, { <<"w", "p", ".venv", "__pycache__">> } }

InitStream ==
    /\ history = << >>
    /\ send_errors = 0
    /\ NoTrash
    /\ timer = NoTimer
    /\ \E w \in StreamW, p \in StreamP : files = Layout(w, p, {"CMakeCache.txt"})
    /\ ignore_file = IgnoreAt(<<"w", "p">>, << >>)
    /\ meta_fail = {}
    /\ file_fail \in StreamFileFail
    /\ \E root \in ScanRoots :
        /\ scanner = NewScanner(root, << >>)
        /\ WalkInit(root)
    /\ fast_mode = TRUE
    /\ phase = "walk"
    /\ slow_dirs \in StreamSlow
    /\ SizeInit(<< >>, DefaultTimeoutSecs)
    /\ single = NoSingle
    /\ CallsInit

NextStream ==
    \/ Take
    \/ \E d \in Dirs : Visit(d)
    \/ StreamReturn
    \/ SizeTake
    \/ \E i \in DOMAIN projects : SizeCalc(i)
    \/ \E i \in DOMAIN projects : SizeSend(i)
    \/ BatchReturn
    \/ Recv
    \/ RecvEnd
    \/ DropReceiver

SpecStream == InitStream /\ [][NextStream]_vars

\* Once scan_with_streaming has returned, the size workers and the iterating
\* consumer are threads the scheduler keeps running: a step of theirs that
\* stays possible is taken. The consumer's drop of the receiver is left to
\* choice.
StreamProgress ==
    \/ SizeTake
    \/ \E i \in DOMAIN projects : SizeCalc(i)
    \/ \E i \in DOMAIN projects : SizeSend(i)
    \/ BatchReturn
    \/ Recv
    \/ RecvEnd

SpecStreamFair == SpecStream /\ WF_vars(StreamProgress)

\* SizeCalculator used directly: calculate_batch_streaming on a batch of
\* pending projects, and calculate_single on one project.
SizeDirs == { <<"w", "p", "target">>, <<"w", "p", ".venv">>, <<"w", "p", "bld">> }

PendingTargets == { new_pending(<<"w", "p">>, "NodeJs", d) : d \in SizeDirs }

Batches == UNION { [1..n -> PendingTargets] : n \in 0..MaxBatch }

\* with_timeout(0) and new()
TimeoutChoices == { 0, DefaultTimeoutSecs }

SizeEnv ==
    { [slow |-> {}, file |-> {}],
      [slow |-> { <<"w", "p", ".venv">> }, file |-> {}],
      [slow |-> {}, file |-> { <<"w", "p", "target">> }] }

\* The project handed to calculate_single: pending, or sized by an earlier run.
SingleProjects ==
    { new_pending(<<"w", "p">>, "NodeJs", <<"w", "p", "target">>),
      [new_pending(<<"w", "p">>, "NodeJs", <<"w", "p", ".venv">>)
         EXCEPT !.size = 9, !.size_calculated = TRUE] }

InitSize ==
    /\ history = << >>
    /\ send_errors = 0
    /\ NoTrash
    /\ timer = NoTimer
    /\ files = Layout({}, {"package.json"}, {})
    /\ ignore_file = IgnoreAt(<<"w", "p">>, << >>)
    /\ meta_fail = {}
    /\ \E e \in SizeEnv : slow_dirs = e.slow /\ file_fail = e.file
    /\ scanner = NewScanner(<<"w">>, << >>)
    /\ fast_mode = TRUE
    /\ matcher_cache = << >>
    /\ stack = {}
    /\ cur = {}
    /\ results = << >>
    /\ visited = {}
    /\ emitted = {}
    /\ returned = << >>
    /\ total_count = 0
    /\ phase = "sizing"
    /\ \E ps \in Batches, t \in TimeoutChoices : SizeInit(ps, t)
    /\ \E sp \in SingleProjects :
        single = [pc |-> "ready", before |-> sp, project |-> sp, result |-> Err(None)]
    /\ CallsInit

NextSize ==
    \/ SizeTake
    \/ \E i \in DOMAIN projects : SizeCalc(i)
    \/ \E i \in DOMAIN projects : SizeSend(i)
    \/ BatchReturn
    \/ Recv
    \/ RecvEnd
    \/ DropReceiver
    \/ CalculateSingle

SpecSize == InitSize /\ [][NextSize]_vars

\* The rayon workers of calculate_batch_streaming are threads the scheduler
\* keeps running; nothing is assumed about the consumer, which may go on
\* receiving, stop, or drop the Receiver.
SizeWork ==
    \/ SizeTake
    \/ \E i \in DOMAIN projects : SizeCalc(i)
    \/ \E i \in DOMAIN projects : SizeSend(i)
    \/ BatchReturn

SpecSizeFair == SpecSize /\ WF_vars(SizeWork)

\* Worker threads of one scan calling matchers_for concurrently.
InitCache ==
    /\ history = << >>
    /\ send_errors = 0
    /\ NoTrash
    /\ timer = NoTimer
    /\ files = Layout({"Cargo.toml"}, {"pyproject.toml"}, {})
    /\ ignore_file = IgnoreAt(<<"w", "p">>, << >>)
    /\ meta_fail = {}
    /\ file_fail = {}
    /\ scanner = NewScanner(<<"w">>, << >>)
    /\ fast_mode = FALSE
    /\ WalkInit(<<"w">>)
    /\ phase = "walk"
    /\ slow_dirs = {}
    /\ SizeInit(<< >>, DefaultTimeoutSecs)
    /\ single = NoSingle
    /\ calls = [c \in Callers |-> [pc |-> "idle", key |-> << <<>>, None >>,
                                   built |-> NoInstance, ret |-> NoInstance]]

NextCache ==
    \/ \E c \in Callers : CallStart(c)
    \/ \E c \in Callers : CallLookup(c)
    \/ \E c \in Callers : CallBuild(c)
    \/ \E c \in Callers : CallInsert(c)

SpecCache == InitCache /\ [][NextCache]_vars

\* ================================================================ claims
StrictlyBelow(d, base) == d # base /\ starts_with(d, base)

NoContainment(rs) ==
    \A i, j \in DOMAIN rs :
        i # j => ~starts_with(rs[i].cleanable_dir, rs[j].cleanable_dir)

\* C1 (containment invariant): in the collection scan() returns, and in the
\* batch scan_with_streaming() hands to the size phase for delivery, no two
\* distinct targets have cleanable_dir values of which one is a path-prefix
\* of the other.
C1_Containment ==
    /\ phase = "returned" => NoContainment(returned)
    /\ phase = "sizing" => NoContainment(projects)

\* C1 witness: a scan returned two targets while a directory below one of
\* them exists on disk and was never visited.
C1_Witness ==
    /\ phase = "returned"
    /\ Len(returned) >= 2
    /\ \E i \in DOMAIN returned :
        \E d \in Dirs \ visited : StrictlyBelow(d, returned[i].cleanable_dir)

\* Some built-in pattern of the ecosystem detected at ancestor a matches dir.
BuiltinMatchesAt(dir, a) ==
    /\ detect(a) # None
    /\ FirstMatch(cleanable_dirs(detect(a)), file_name(dir),
                  normalize_relative_path(dir, a)) # 0

\* Some custom pattern whose marker predicate holds at ancestor a matches dir.
CustomMatchesAt(dir, a) == FirstCustom(dir, a) # 0

\* C2 as stated (rule precedence over any ancestors): an emitted target
\* whose directory matches a built-in pattern at some ancestor the walk tests
\* and a custom pattern at some ancestor the walk tests has source Custom.
C2_CustomOverBuiltinAnyAncestor ==
    \A e \in emitted :
        LET roots == Range(RuleLoopRoots(e.cleanable_dir))
        IN  ( /\ \E a \in roots : BuiltinMatchesAt(e.cleanable_dir, a)
              /\ \E a \in roots : CustomMatchesAt(e.cleanable_dir, a) )
            => e.matched_rule.source = "Custom"

\* C2 amended (rule precedence at one ancestor): an emitted target whose
\* directory matches, at the target's own root, both a built-in pattern and
\* a custom pattern whose marker predicate holds there has source Custom.
C2_CustomOverBuiltinSameRoot ==
    \A e \in emitted :
        ( /\ BuiltinMatchesAt(e.cleanable_dir, e.root)
          /\ CustomMatchesAt(e.cleanable_dir, e.root) )
        => e.matched_rule.source = "Custom"

\* C2 witness: a target was emitted with source Custom although a built-in
\* pattern of the ecosystem detected at its root matches it too.
C2_Witness ==
    \E e \in emitted :
        /\ BuiltinMatchesAt(e.cleanable_dir, e.root)
        /\ CustomMatchesAt(e.cleanable_dir, e.root)
        /\ e.matched_rule.source = "Custom"

\* C3 (root-bound invariant): every emitted target's cleanable_dir lies
\* under its root, and its root lies under or at the scan root.
C3_RootBound ==
    \A e \in emitted :
        /\ starts_with(e.cleanable_dir, e.root)
        /\ starts_with(e.root, scanner.root)

\* C4 (pruning): below a directory the walker classified as a target,
\* nothing is ever handed to the visitor, queued for it, or reported.
C4_Pruning ==
    \A e \in emitted :
        /\ \A d \in visited \cup stack \cup cur : ~StrictlyBelow(d, e.cleanable_dir)
        /\ \A x \in emitted : ~StrictlyBelow(x.cleanable_dir, e.cleanable_dir)

\* C4 witness: the walk is over, .venv was classified, a __pycache__ exists
\* below it and was never visited, and .venv is the only target.
C4_Witness ==
    /\ phase = "returned"
    /\ Len(returned) = 1
    /\ returned[1].cleanable_dir = <<"w", "p", ".venv">>
    /\ <<"w", "p", ".venv", "__pycache__">> \in Dirs \ visited

\* The size computation of dir fails under the configured timeout: a zero
\* timeout, a traversal that outlasts the timeout, or an unreadable file.
SizeFails(dir) ==
    \/ timeout_secs = 0
    \/ dir \in slow_dirs
    \/ \E c \in file_fail : starts_with(c, dir)

Delivered == Range(chan) \cup Range(received)

\* C5 (lifecycle): no project is sent more than once or before it is sized,
\* a project is sized only after a worker took it, a sized project is never
\* changed again, and when calculate_batch_streaming returns every project
\* is sized and was sent exactly once; with the receiver alive, what was sent
\* is what the channel holds or the consumer took.
C5_LifecycleState ==
    /\ \A i \in DOMAIN projects :
        /\ sent[i] \in {0, 1}
        /\ sent[i] = 1 => projects[i].size_calculated
        /\ projects[i].size_calculated => i \in claimed
        /\ (i \in claimed /\ [ix |-> i, pc |-> "calc"] \notin job)
              => projects[i].size_calculated
    /\ IsSome(batch_ret) =>
        \A i \in DOMAIN projects : projects[i].size_calculated /\ sent[i] = 1
    /\ rx_alive =>
        Len(chan) + Len(received) = Cardinality({ i \in DOMAIN projects : sent[i] = 1 })

C5_Lifecycle ==
    /\ []C5_LifecycleState
    /\ [][\A i \in DOMAIN projects :
            projects[i].size_calculated => projects'[i] = projects[i]]_vars

\* C5 witness: a batch of two has returned; one size computation succeeded
\* and one failed, and both projects were sent once.
C5_Witness ==
    /\ IsSome(batch_ret)
    /\ Len(projects) = 2
    /\ \E i, j \in DOMAIN projects :
        /\ SizeFails(projects[i].cleanable_dir)
        /\ ~SizeFails(projects[j].cleanable_dir)
        /\ sent[i] = 1 /\ sent[j] = 1

\* C6 (batch failure sentinel): a project whose size computation fails is
\* delivered with size 0 and size_calculated, every other project of the
\* batch is delivered with its bytes, and the batch returns a count (the
\* number of successes), never an error; with a zero timeout that count is 0.
C6_FailureSentinel ==
    /\ \A p \in Delivered :
        /\ p.size_calculated
        /\ SizeFails(p.cleanable_dir) => p.size = 0
        /\ ~SizeFails(p.cleanable_dir) => p.size = SumBytes(Subtree(p.cleanable_dir))
    /\ IsSome(batch_ret) =>
        /\ \A i \in DOMAIN projects : sent[i] = 1
        /\ Unwrap(batch_ret) =
              Cardinality({ i \in DOMAIN projects : ~SizeFails(projects[i].cleanable_dir) })

\* C6 witness: with a non-zero timeout, a failed project (size 0) and a
\* successful one (its bytes) of the same batch have both been received.
C6_Witness ==
    /\ timeout_secs # 0
    /\ IsSome(batch_ret)
    /\ \E p, q \in Range(received) :
        /\ SizeFails(p.cleanable_dir) /\ p.size = 0
        /\ ~SizeFails(q.cleanable_dir) /\ q.size > 0

\* C7 (single-item path): calculate_single returns an error exactly when the
\* size computation fails and then leaves the project as it was; otherwise it
\* returns the bytes of the directory and stores them with size_calculated.
C7_Single ==
    single.pc = "done" =>
        /\ single.result.ok = ~SizeFails(single.before.cleanable_dir)
        /\ ~single.result.ok => single.project = single.before
        /\ single.result.ok =>
            /\ single.result.size = SumBytes(Subtree(single.before.cleanable_dir))
            /\ single.project =
                  [single.before EXCEPT !.size = single.result.size,
                                        !.size_calculated = TRUE]

\* C7 witness: calculate_single failed on a project that was already sized,
\* and the project still has its earlier size.
C7_Witness ==
    /\ single.pc = "done"
    /\ ~single.result.ok
    /\ single.before.size_calculated
    /\ single.project.size = 9

\* C8 (streaming completeness): everything delivered is sized; once the
\* producer is done the receiver holds or has yielded total_count targets; a
\* consumer whose iteration ended has received total_count targets; and the
\* iteration of a consumer that keeps iterating the returned receiver ends.
C8_StreamState ==
    /\ \A p \in Delivered : p.size_calculated
    /\ (phase = "streamed" /\ rx_alive) => Len(chan) + Len(received) = total_count
    /\ consumer = "finished" => Len(received) = total_count

C8_StreamComplete ==
    /\ []C8_StreamState
    /\ (phase \in {"sizing", "streamed"}) ~> (consumer # "iterating")

\* C8 witness: the consumer's iteration ended after two targets, one of them
\* sized with the failure sentinel.
C8_Witness ==
    /\ consumer = "finished"
    /\ total_count = 2
    /\ Len(received) = 2
    /\ \E p \in Range(received) : p.size = 0

PolicyRisk(source, category) ==
    IF source = "Gitignore" THEN "High"
    ELSE CASE category = "Cache" -> "Low"
           [] category = "Build" -> "Medium"
           [] category = "Deps" -> "High"
           [] category = "Unknown" -> "Medium"

PolicyConfidence(source) ==
    CASE source = "Custom" -> "High"
      [] source = "Builtin" -> "High"
      [] source = "Heuristic" -> "Medium"
      [] source = "Gitignore" -> "Low"

\* C9 (classification policy): every emitted target carries a matched rule,
\* and its risk level and confidence are the policy table's values for that
\* rule's source and the target's category.
C9_PolicyTable ==
    \A e \in emitted :
        /\ e.matched_rule.source \in {"Custom", "Builtin", "Gitignore", "Heuristic"}
        /\ e.risk_level = PolicyRisk(e.matched_rule.source, e.category)
        /\ e.confidence = PolicyConfidence(e.matched_rule.source)

\* C9 witness: targets of an ignore-file rule (category Unknown, risk High)
\* and of a built-in rule have been emitted in one walk.
C9_Witness ==
    /\ \E e \in emitted :
        /\ e.matched_rule.source = "Gitignore"
        /\ e.category = "Unknown"
        /\ e.risk_level = "High"
    /\ \E e \in emitted : e.matched_rule.source = "Builtin"

\* C10 (matcher cache under concurrency): every finished matchers_for call
\* returned the instance the cache holds for its key, and no step removes or
\* replaces an entry of the cache (which, as a map, holds one instance per key).
C10_CallsAgree ==
    \A c \in Callers :
        calls[c].pc = "done" =>
            /\ calls[c].key \in DOMAIN matcher_cache
            /\ calls[c].ret = matcher_cache[calls[c].key]

C10_CacheOneInstance ==
    /\ []C10_CallsAgree
    /\ [][\A k \in DOMAIN matcher_cache :
            /\ k \in DOMAIN matcher_cache'
            /\ matcher_cache'[k] = matcher_cache[k]]_vars

\* C10 witness: two calls for one key both built an instance; both returned
\* the same one, which for one of them is the other's.
C10_Witness ==
    \E c, d \in Callers :
        /\ c # d
        /\ calls[c].pc = "done" /\ calls[d].pc = "done"
        /\ calls[c].key = calls[d].key
        /\ calls[c].built = [by |-> c] /\ calls[d].built = [by |-> d]
        /\ calls[c].ret = calls[d].ret
        /\ calls[d].ret = [by |-> c]

\* Scanner::new(root).exclude_dirs(..): scans with excluded basenames, some
\* of them names of cleanable directories, one the name of the scan root.
ExcludeChoices == { {}, {"target"}, {".venv"}, {"p", "bld"} }
ExcludeP == { {"Cargo.toml"}, {"pyproject.toml"} }

InitExclude ==
    /\ history = << >>
    /\ send_errors = 0
    /\ NoTrash
    /\ timer = NoTimer
    /\ \E p \in ExcludeP : files = Layout({}, p, {})
    /\ ignore_file = IgnoreAt(<<"w", "p">>, << >>)
    /\ meta_fail = {}
    /\ file_fail = {}
    /\ \E root \in ScanRoots, x \in ExcludeChoices :
        /\ scanner = [NewScanner(root, << >>) EXCEPT !.exclude_dirs = x]
        /\ WalkInit(root)
    /\ fast_mode \in BOOLEAN
    /\ phase = "walk"
    /\ slow_dirs = {}
    /\ SizeInit(<< >>, DefaultTimeoutSecs)
    /\ single = NoSingle
    /\ CallsInit

SpecExclude == InitExclude /\ [][NextScan]_vars

\* Custom patterns for the directory name "target": both marker modes,
\* with two markers and with none.
CustomPattern(name, marker_files, marker_mode) ==
    [name |-> name, directory |-> <<"target">>,
     marker_files |-> marker_files, marker_mode |-> marker_mode]

AnyPattern == CustomPattern("Any", <<"Assets", "ProjectSettings">>, "AnyOf")
AllPattern == CustomPattern("All", <<"Assets", "ProjectSettings">>, "AllOf")
EmptyAnyPattern == CustomPattern("EmptyAny", << >>, "AnyOf")
EmptyAllPattern == CustomPattern("EmptyAll", << >>, "AllOf")

CustomConfigs ==
    { << AnyPattern >>, << AllPattern >>, << AllPattern, AnyPattern >>,
      << EmptyAnyPattern, AllPattern >>, << EmptyAllPattern, AnyPattern >> }

CustomW == { {}, {"Assets"}, {"Assets", "ProjectSettings"} }
CustomP == { {}, {"Assets"}, {"ProjectSettings"}, {"Assets", "ProjectSettings"},
             {"Cargo.toml", "Assets"} }

InitCustom ==
    /\ history = << >>
    /\ send_errors = 0
    /\ NoTrash
    /\ timer = NoTimer
    /\ \E w \in CustomW, p \in CustomP : files = Layout(w, p, {})
    /\ ignore_file = IgnoreAt(<<"w", "p">>, << >>)
    /\ meta_fail = {}
    /\ file_fail = {}
    /\ \E root \in ScanRoots, cps \in CustomConfigs :
        /\ scanner = NewScanner(root, cps)
        /\ WalkInit(root)
    /\ fast_mode \in BOOLEAN
    /\ phase = "walk"
    /\ slow_dirs = {}
    /\ SizeInit(<< >>, DefaultTimeoutSecs)
    /\ single = NoSingle
    /\ CallsInit

SpecCustom == InitCustom /\ [][NextScan]_vars

\* CMake trees: the project descriptor at /w/p, at /w, or nowhere; the
\* build cache in /w/p/bld with or without a descriptor of its own.
CMakeW == { {}, {"CMakeLists.txt"} }
CMakeP == { {}, {"CMakeLists.txt"}, {"Cargo.toml"} }

InitCMake ==
    /\ history = << >>
    /\ send_errors = 0
    /\ NoTrash
    /\ timer = NoTimer
    /\ \E w \in CMakeW, p \in CMakeP, b \in BMarkers : files = Layout(w, p, b)
    /\ ignore_file = IgnoreAt(<<"w", "p">>, << >>)
    /\ meta_fail = {}
    /\ file_fail = {}
    /\ \E root \in ScanRoots : scanner = NewScanner(root, << >>) /\ WalkInit(root)
    /\ fast_mode \in BOOLEAN
    /\ phase = "walk"
    /\ slow_dirs = {}
    /\ SizeInit(<< >>, DefaultTimeoutSecs)
    /\ single = NoSingle
    /\ CallsInit

SpecCMake == InitCMake /\ [][NextScan]_vars

\* One size computation: directories of a few entries and of more than
\* CheckEvery entries, under with_timeout(0) and with_timeout(2).
EntryCounts == { 1, 3, 257 }
TimerTimeouts == { 0, 2 }

InitTimer ==
    /\ history = << >>
    /\ send_errors = 0
    /\ NoTrash
    /\ \E n \in EntryCounts :
        timer = [pc |-> "start", entries |-> n, checked_entries |-> 0, elapsed |-> 0,
                 result |-> Err(None)]
    /\ files = Layout({}, {}, {})
    /\ ignore_file = IgnoreAt(<<"w", "p">>, << >>)
    /\ meta_fail = {}
    /\ file_fail = {}
    /\ scanner = NewScanner(<<"w">>, << >>)
    /\ fast_mode = TRUE
    /\ WalkInit(<<"w">>)
    /\ phase = "timing"
    /\ slow_dirs = {}
    /\ \E t \in TimerTimeouts : SizeInit(<< >>, t)
    /\ single = NoSingle
    /\ CallsInit

NextTimer == TimerStart \/ TimerEntry \/ TimerEnd

SpecTimer == InitTimer /\ [][NextTimer]_vars

\* deduplicate_nested_dirs applied to a list of candidates (line 207, 292).
Dedupe ==
    /\ phase = "dedupe"
    /\ returned' = deduplicate_nested_dirs(results)
    /\ phase' = "deduped"
    /\ UNCHANGED <<fsVars, matcher_cache, stack, cur, results, visited, emitted,
                   total_count, sizeVars, single, calls>>

\* Candidates for deduplicate_nested_dirs: nested ones, unrelated ones, and
\* two distinct ones (different roots) with the same cleanable_dir.
Candidates ==
    { new_pending(<<"w", "p">>, "Python", <<"w", "p", ".venv">>),
      new_pending(<<"w">>, "Python", <<"w", "p", ".venv">>),
      new_pending(<<"w", "p">>, "Python", <<"w", "p", ".venv", "__pycache__">>),
      new_pending(<<"w", "p">>, "Rust", <<"w", "p", "target">>),
      new_pending(<<"w">>, "Generic", <<"w", "p">>) }

\* The lists of distinct candidates, up to MaxCands long.
CandidateLists ==
    UNION { { l \in [1..n -> Candidates] : \A i, j \in 1..n : i # j => l[i] # l[j] }
            : n \in 0..MaxCands }

InitDedupe ==
    /\ history = << >>
    /\ send_errors = 0
    /\ NoTrash
    /\ timer = NoTimer
    /\ files = Layout({}, {}, {})
    /\ ignore_file = IgnoreAt(<<"w", "p">>, << >>)
    /\ meta_fail = {}
    /\ file_fail = {}
    /\ scanner = NewScanner(<<"w">>, << >>)
    /\ fast_mode = TRUE
    /\ matcher_cache = << >>
    /\ stack = {}
    /\ cur = {}
    /\ results \in CandidateLists
    /\ visited = {}
    /\ emitted = {}
    /\ returned = << >>
    /\ total_count = 0
    /\ phase = "dedupe"
    /\ slow_dirs = {}
    /\ SizeInit(<< >>, DefaultTimeoutSecs)
    /\ single = NoSingle
    /\ CallsInit

NextDedupe == Dedupe

SpecDedupe == InitDedupe /\ [][NextDedupe]_vars

\* The targets of a finished call: scan()'s Vec, or the list
\* scan_with_streaming() hands to the size thread.
Finished == phase \in {"returned", "sizing"}

Targets == IF fast_mode THEN projects ELSE returned

\* C11 (matcher cache is scan-scoped): when a scan starts on a Scanner that
\* has finished a scan before, the matcher cache is empty.
C11_CacheScanScoped ==
    (phase = "walk" /\ visited = {} /\ Len(history) >= 1)
        => DOMAIN matcher_cache = {}

\* C12 (fatal errors): a scan whose root does not exist does not return a
\* success value (the code has no other return than Ok).
C12_FatalOnBadRoot ==
    ~EntryIsDir(scanner.root) => ~Finished

TargetTuples(ts) ==
    { <<ts[i].cleanable_dir, ts[i].category, ts[i].risk_level>> : i \in DOMAIN ts }

KeptByDedupe(x) ==
    ~\E j \in DOMAIN results : StrictlyBelow(x.cleanable_dir, results[j].cleanable_dir)

TargetAttributes(ts) ==
    { [root |-> ts[i].root, project_type |-> ts[i].project_type,
       cleanable_dir |-> ts[i].cleanable_dir, category |-> ts[i].category,
       risk_level |-> ts[i].risk_level, confidence |-> ts[i].confidence,
       matched_rule |-> ts[i].matched_rule] : i \in DOMAIN ts }

\* C15 (walk-mode equivalence): with no minimum-size filter, a finished
\* scan reports the same targets, with the same root, ecosystem,
\* cleanable_dir, category, risk_level, confidence and matched_rule, as every
\* earlier scan of the same tree made in the other mode.
C15_ModesAgree ==
    (Finished /\ ~IsSome(scanner.min_size)) =>
        \A i \in DOMAIN history :
            history[i].fast # fast_mode
                => TargetAttributes(history[i].targets) = TargetAttributes(Targets)

\* The basenames filter_entry refuses.
Refused == {".git", ".svn", ".hg"} \cup scanner.exclude_dirs

\* Some component of d below the scan root is a refused basename.
UnderRefused(d) == \E k \in (Len(scanner.root) + 1)..Len(d) : d[k] \in Refused

\* C16 (exclusion precedes matching): no directory that is, or lies beneath,
\* a directory below the scan root named .git, .svn, .hg or by exclude_dirs
\* is queued, visited or emitted as a target.
C16_ExclusionFirst ==
    /\ \A d \in stack \cup cur \cup visited : ~UnderRefused(d)
    /\ \A e \in emitted : ~UnderRefused(e.cleanable_dir)

\* C16 witness: a walk of a Rust project with "target" excluded is over; it
\* visited the project but neither target nor .git, and emitted nothing.
C16_Witness ==
    /\ phase \in {"returned", "sizing"}
    /\ scanner.exclude_dirs = {"target"}
    /\ detect(<<"w", "p">>) = "Rust"
    /\ <<"w", "p">> \in visited
    /\ <<"w", "p", "target">> \notin visited
    /\ <<"w", "p", ".git">> \notin visited
    /\ emitted = {}

\* The marker predicate of custom pattern c at root r, as the claim states
\* it: some marker under AnyOf, every marker under AllOf, never with no
\* markers.
MarkersPresent(c, r) == { i \in DOMAIN c.marker_files : Exists(r, c.marker_files[i]) }

MarkerPredicate(c, r) ==
    /\ Len(c.marker_files) > 0
    /\ c.marker_mode = "AnyOf" => MarkersPresent(c, r) # {}
    /\ c.marker_mode = "AllOf" => MarkersPresent(c, r) = DOMAIN c.marker_files

\* C17 (custom-pattern gating): every emitted target whose rule source is
\* Custom comes from a configured pattern whose marker predicate holds at
\* the target's root; it has ecosystem Generic and the pattern's name as
\* project_name and as the rule's name.
C17_CustomGating ==
    \A e \in emitted :
        e.matched_rule.source = "Custom" =>
            /\ e.project_type = "Generic"
            /\ \E i \in DOMAIN scanner.custom_patterns :
                LET c == scanner.custom_patterns[i]
                IN  /\ e.project_name = c.name
                    /\ e.matched_rule.name = c.name
                    /\ e.matched_rule.pattern = c.directory
                    /\ MarkerPredicate(c, e.root)

\* C17 witness: at a root holding one of the two markers the AllOf pattern,
\* first in the configuration, was passed over and the AnyOf pattern
\* produced the target.
C17_Witness ==
    \E e \in emitted :
        /\ scanner.custom_patterns = << AllPattern, AnyPattern >>
        /\ e.matched_rule.source = "Custom"
        /\ e.project_name = "Any"
        /\ Exists(e.root, "Assets")
        /\ ~Exists(e.root, "ProjectSettings")

Ancestors(d) == { a \in Dirs : StrictlyBelow(d, a) }

\* A custom pattern or the ecosystem matcher of ancestor a matches d.
RuleMatchesAt(d, a) ==
    \/ FirstCustom(d, a) # 0
    \/ /\ detect(a) # None
       /\ matches(build_matchers(detect(a), a), file_name(d),
                  normalize_relative_path(d, a))

\* The ancestors of d inside the scan root that hold the project descriptor.
DescriptorAncestors(d) ==
    { a \in Ancestors(d) : starts_with(a, scanner.root) /\ Exists(a, "CMakeLists.txt") }

HeuristicTargets(d) ==
    { e \in emitted : e.cleanable_dir = d /\ e.matched_rule.source = "Heuristic" }

\* C18 (CMake out-of-source heuristic): a directory the visitor has handled
\* that matches no custom or ecosystem rule at any ancestor has a Heuristic
\* target exactly when it holds CMakeCache.txt, does not hold CMakeLists.txt
\* and some ancestor inside the scan root holds CMakeLists.txt; the target's
\* root is the nearest such ancestor and it is Cpp, Build, Medium, Medium.
C18_CMakeHeuristic ==
    \A d \in (visited \ cur) \cap Dirs :
        (\A a \in Ancestors(d) : ~RuleMatchesAt(d, a)) =>
            /\ HeuristicTargets(d) # {}
                  <=> /\ Exists(d, "CMakeCache.txt")
                      /\ ~Exists(d, "CMakeLists.txt")
                      /\ DescriptorAncestors(d) # {}
            /\ \A e \in HeuristicTargets(d) :
                  /\ e.root \in DescriptorAncestors(d)
                  /\ \A a \in DescriptorAncestors(d) : Len(a) <= Len(e.root)
                  /\ e.project_type = "Cpp"
                  /\ e.category = "Build"
                  /\ e.risk_level = "Medium"
                  /\ e.confidence = "Medium"

\* C19 (timeout bound): when the size computation returns, no more time has
\* passed than the configured per-item timeout.
C19_TimeoutBound ==
    timer.pc = "done" => timer.elapsed <= timeout_secs

\* C20 (no cancellation): a failed send happens only once the receiver is
\* gone and is ignored; the consumer dropping the receiver changes nothing of
\* the producer; a size computation that has started is never abandoned;
\* when the batch returns every project is sized with its bytes or the
\* failure sentinel and was sent once, and the count is the number of
\* successes; and, whatever the consumer does, the batch call returns.
C20_NoCancellationState ==
    /\ send_errors > 0 => ~rx_alive
    /\ send_errors <= Cardinality({ i \in DOMAIN projects : sent[i] = 1 })
    /\ IsSome(batch_ret) =>
        /\ \A i \in DOMAIN projects :
            /\ projects[i].size_calculated
            /\ sent[i] = 1
            /\ projects[i].size =
                  IF SizeFails(projects[i].cleanable_dir) THEN 0
                  ELSE SumBytes(Subtree(projects[i].cleanable_dir))
        /\ Unwrap(batch_ret) =
              Cardinality({ i \in DOMAIN projects : ~SizeFails(projects[i].cleanable_dir) })

C20_NoCancellation ==
    /\ []C20_NoCancellationState
    /\ [][(rx_alive /\ ~rx_alive') =>
            UNCHANGED <<projects, claimed, job, sent, completed, batch_ret, phase>>]_vars
    /\ [][\A i \in DOMAIN projects :
            [ix |-> i, pc |-> "calc"] \in job =>
                \/ [ix |-> i, pc |-> "calc"] \in job'
                \/ projects'[i].size_calculated]_vars
    /\ [][claimed \subseteq claimed']_vars
    /\ <>IsSome(batch_ret)

\* C20 witness: the receiver was dropped while the batch was running, a send
\* has failed, and another project's size computation is in progress.
C20_Witness ==
    /\ phase = "sizing"
    /\ consumer = "dropped"
    /\ send_errors >= 1
    /\ \E j \in job : j.pc = "calc"

\* A directory the walker classifies when nothing fails to be read: in fast
\* mode, with its own metadata readable, no read can fail.
ClassifiedWhenReadable(d) ==
    /\ d \notin meta_fail
    /\ IsSome(check_directory_impl(d, TRUE).info)

\* C21 (per-entry I/O errors): when a scan has finished, every directory the
\* visitor was handed that is classified as a target when its own metadata
\* can be read is among the reported targets, whatever entries elsewhere
\* (inside it included) could not be read.
C21_ErrorsSkipped ==
    Finished =>
        \A d \in visited :
            ClassifiedWhenReadable(d) =>
                \E i \in DOMAIN Targets : Targets[i].cleanable_dir = d

\* Trees and configurations for the pattern lists: the ignore file of /w/p
\* and the custom patterns hold a pattern that does not compile before,
\* after or instead of a valid one, or the ignore file repeats or covers a
\* built-in pattern.
BadCustom ==
    [name |-> "Bad", directory |-> <<"[">>,
     marker_files |-> <<"Assets">>, marker_mode |-> "AnyOf"]

BldCustom ==
    [name |-> "Bld", directory |-> <<"bld">>,
     marker_files |-> <<"Assets">>, marker_mode |-> "AnyOf"]

PatternIgnores ==
    { << >>, << <<"[">> >>, << <<"[">>, <<"bld">> >>, << <<"bld">>, <<"[">> >>,
      << <<"[", "x">>, <<".git">> >>, << <<"target">>, <<"bld">> >>, << <<"*">> >> }

PatternCustoms ==
    { << >>, << BadCustom >>, << BadCustom, BldCustom >>, << BldCustom, BadCustom >>,
      << BadCustom, Unity >> }

PatternP == { {"Cargo.toml"}, {"pyproject.toml", "Assets"}, {"Assets"} }

InitPatterns ==
    /\ history = << >>
    /\ send_errors = 0
    /\ NoTrash
    /\ timer = NoTimer
    /\ \E p \in PatternP : files = Layout({}, p, {})
    /\ \E ig \in PatternIgnores : ignore_file = IgnoreAt(<<"w", "p">>, ig)
    /\ meta_fail = {}
    /\ file_fail = {}
    /\ \E cps \in PatternCustoms :
        /\ scanner = NewScanner(<<"w">>, cps)
        /\ WalkInit(<<"w">>)
    /\ fast_mode \in BOOLEAN
    /\ phase = "walk"
    /\ slow_dirs = {}
    /\ SizeInit(<< >>, DefaultTimeoutSecs)
    /\ single = NoSingle
    /\ CallsInit

SpecPatterns == InitPatterns /\ [][NextScan]_vars

\* The patterns of a list that compile, in the list's order.
ValidPatterns(patterns) == SelectSeq(patterns, GlobCompiles)

\* Some pattern of a list of compiled patterns matches.
AnyValidMatches(valid, basename, rel) ==
    \E i \in DOMAIN valid :
        glob_is_match(valid[i], IF Len(valid[i]) > 1 THEN rel ELSE <<basename>>)

\* The first matching pattern of a list of compiled patterns, or << >>.
FirstValidMatch(valid, basename, rel) ==
    IF ~AnyValidMatches(valid, basename, rel) THEN << >>
    ELSE valid[CHOOSE i \in DOMAIN valid :
                 /\ AnyValidMatches(<<valid[i]>>, basename, rel)
                 /\ \A j \in 1..(i - 1) : ~AnyValidMatches(<<valid[j]>>, basename, rel)]

\* The rule the matcher reports when the malformed patterns are absent.
RuleOfValid(builtin, gitignore, basename, rel) ==
    IF AnyValidMatches(builtin, basename, rel)
    THEN RuleRef("Builtin", FirstValidMatch(builtin, basename, rel), None)
    ELSE IF AnyValidMatches(gitignore, basename, rel)
    THEN RuleRef("Gitignore", FirstValidMatch(gitignore, basename, rel), None)
    ELSE NoRule

MatcherFailsOpen(m, builtin, gitignore, basename, rel) ==
    /\ matches(m, basename, rel) = AnyValidMatches(builtin \o gitignore, basename, rel)
    /\ matched_rule(m, basename, rel) = RuleOfValid(builtin, gitignore, basename, rel)

\* The custom patterns whose directory pattern compiles.
ValidCustoms == SelectSeq(scanner.custom_patterns, LAMBDA c : GlobCompiles(c.directory))

CustomApplies(c, d, a) ==
    /\ custom_root_matches(a, c)
    /\ AnyValidMatches(<<c.directory>>, file_name(d), normalize_relative_path(d, a))

\* The first custom pattern that applies to d at a when the malformed ones
\* are absent, or NoRule.
CustomOfValid(valid, d, a) ==
    IF \A i \in DOMAIN valid : ~CustomApplies(valid[i], d, a) THEN NoRule
    ELSE LET i == CHOOSE i \in DOMAIN valid :
                    /\ CustomApplies(valid[i], d, a)
                    /\ \A j \in 1..(i - 1) : ~CustomApplies(valid[j], d, a)
         IN  RuleRef("Custom", valid[i].directory, valid[i].name)

CustomChosen(c) ==
    IF c = 0 THEN NoRule
    ELSE RuleRef("Custom", scanner.custom_patterns[c].directory,
                 scanner.custom_patterns[c].name)

\* C22 (malformed patterns fail open): the matcher of every detected root
\* matches, and attributes, every directory below it exactly as the patterns
\* that compile do on their own; the custom pattern chosen for a directory
\* at an ancestor is the one the custom patterns that compile choose; and no
\* emitted target is attributed to a pattern that does not compile.
C22_FailOpen ==
    /\ \A a \in Dirs : \A d \in { x \in Dirs : StrictlyBelow(x, a) } :
        /\ detect(a) # None =>
              MatcherFailsOpen(build_matchers(detect(a), a),
                               ValidPatterns(cleanable_dirs(detect(a))),
                               ValidPatterns(parse_gitignore(a)),
                               file_name(d), normalize_relative_path(d, a))
        /\ CustomChosen(FirstCustom(d, a)) = CustomOfValid(ValidCustoms, d, a)
    /\ \A e \in emitted :
        e.matched_rule.source \in {"Builtin", "Gitignore", "Custom"}
            => GlobCompiles(e.matched_rule.pattern)

\* C22 witness: a target was emitted through a valid pattern that shares
\* its ignore file, or the custom pattern list, with a malformed pattern.
C22_Witness ==
    /\ \E e \in emitted :
        /\ e.matched_rule.source = "Gitignore"
        /\ \E i \in DOMAIN ignore_file[e.root] : ~GlobCompiles(ignore_file[e.root][i])
    /\ Len(ValidCustoms) < Len(scanner.custom_patterns)

\* ------------------------------------------------------------- trash.rs
\* The variables of the scanner model, which the trash module leaves alone.
scanVars == <<files, ignore_file, meta_fail, file_fail, scanner, fast_mode, history,
              timer, send_errors, matcher_cache, walkVars, phase, sizeVars, single,
              calls>>

\* Paths are component lists that start with the root component "/".
TrashRoot == <<"/", "t">>

BatchIds == {"b1", "b2"}

\* The directories handed to trash_dir: /a, /a/b below it, and /c.
Originals == { <<"/", "a">>, <<"/", "a", "b">>, <<"/", "c">> }

\* The size the caller passes with a directory.
TrashSizes == {1, 2}

BatchDir(batch_id) == Append(TrashRoot, batch_id)

\* path_to_trash_relpath: the root separator is dropped, every other
\* component is kept.
path_to_trash_relpath(path) == SelectSeq(path, LAMBDA comp : comp # "/")

\* What lies at or below p on disk d.
Under(d, p) == { q \in DOMAIN d : starts_with(q, p) }

\* fs::remove_dir_all
remove_dir_all(d, p) == [q \in DOMAIN d \ Under(d, p) |-> d[q]]

\* fs::create_dir_all: p and the ancestors of p that are missing are created
\* empty ("mk"); what exists is left as it is.
create_dir_all(d, p) ==
    [q \in DOMAIN d \cup { SubSeq(p, 1, k) : k \in 2..Len(p) } |->
        IF q \in DOMAIN d THEN d[q] ELSE "mk"]

\* A directory that holds nothing: made by create_dir_all and never filled.
IsEmptyDir(d, p) == d[p] = "mk" /\ Under(d, p) = {p}

\* The disk once the tree at src has become the tree at dst.
Moved(d, src, dst) ==
    [q \in (DOMAIN d \ (Under(d, src) \cup {dst}))
           \cup { dst \o SubSeq(r, Len(src) + 1, Len(r)) : r \in Under(d, src) } |->
        IF starts_with(q, dst) THEN d[src \o SubSeq(q, Len(dst) + 1, Len(q))]
        ELSE d[q]]

FsOk(d) == [ok |-> TRUE, disk |-> d]
FsErr(d) == [ok |-> FALSE, disk |-> d]

\* fs::rename of a directory: fails when the source or the destination's
\* parent is missing and when the destination is a directory that is not
\* empty; an empty destination directory is replaced.
rename(d, src, dst) ==
    IF src \notin DOMAIN d \/ Parent(dst) \notin DOMAIN d THEN FsErr(d)
    ELSE IF dst \in DOMAIN d /\ ~IsEmptyDir(d, dst) THEN FsErr(d)
    ELSE FsOk(Moved(d, src, dst))

\* copy_dir_recursive followed by remove_dir_all(src): refuses a destination
\* that exists.
copy_then_remove(d, src, dst) ==
    IF dst \in DOMAIN d THEN FsErr(d) ELSE FsOk(Moved(d, src, dst))

\* move_path_with_exdev_fallback: the stat of a missing source fails; rename,
\* or copy and remove when rename answers CrossesDevices.
move_path_with_exdev_fallback(d, src, dst) ==
    IF src \notin DOMAIN d THEN FsErr(d)
    ELSE IF cross_device /\ Parent(dst) \in DOMAIN d THEN copy_then_remove(d, src, dst)
    ELSE rename(d, src, dst)

TrashEntry(batch_id, created_at, original_path, trashed_path, size) ==
    [batch_id |-> batch_id, created_at |-> created_at,
     original_path |-> original_path, trashed_path |-> trashed_path, size |-> size]

\* trash_dir after the move: the entry is appended to the log only when the
\* move succeeded (lines 78-95).
TrashDirDone(entry, m) ==
    /\ disk' = m.disk
    /\ trash_log' = IF m.ok THEN Append(trash_log, entry) ELSE trash_log
    /\ trash_ret' = [op |-> "trash_dir", ok |-> m.ok, entry |-> entry]

TrashDirTo(batch_id, original, trashed_path, size) ==
    TrashDirDone(TrashEntry(batch_id, now, original, trashed_path, size),
                 move_path_with_exdev_fallback(
                     create_dir_all(disk, Parent(trashed_path)), original, trashed_path))

\* TrashManager::trash_dir of the manager whose batch is batch_id.
TrashDir(batch_id, original, size) ==
    /\ phase = "trash"
    /\ Len(trash_log) < MaxLog
    /\ TrashDirTo(batch_id, original,
                  BatchDir(batch_id) \o path_to_trash_relpath(original), size)
    /\ UNCHANGED <<scanVars, cross_device, now>>

\* Outside the program: a directory that is not there is created again (a
\* build recreates its output directory), with new content.
Recreate(original) ==
    /\ phase = "trash"
    /\ original \notin DOMAIN disk
    /\ disk' = [q \in DOMAIN create_dir_all(disk, Parent(original)) \cup {original} |->
                  IF q = original THEN "new"
                  ELSE create_dir_all(disk, Parent(original))[q]]
    /\ UNCHANGED <<scanVars, cross_device, trash_log, now, trash_ret>>

\* Time passes: half a day.
Tick ==
    /\ phase = "trash"
    /\ now < MaxNow
    /\ now' = now + 1
    /\ UNCHANGED <<scanVars, disk, cross_device, trash_log, trash_ret>>

\* The entries of the log that belong to one batch, in file order.
EntriesOf(batch_id) == SelectSeq(trash_log, LAMBDA e : e.batch_id = batch_id)

\* sort_by_key(Reverse(components().count())): a stable sort, the paths
\* with more components first, down from depth components.
RECURSIVE DeeperFirst(_, _)
DeeperFirst(entries, depth) ==
    IF depth = 0 THEN << >>
    ELSE SelectSeq(entries, LAMBDA e : Len(e.original_path) = depth)
            \o DeeperFirst(entries, depth - 1)

MaxDepth == 3

RestoreStart(d) ==
    [disk |-> d, restored_count |-> 0, skipped_count |-> 0, failed_count |-> 0,
     errors |-> << >>]

\* Lines 301-316: the outcome of the move of one entry.
RestoreMoved(st, entry, m) ==
    IF m.ok
    THEN [st EXCEPT !.disk = m.disk, !.restored_count = @ + 1]
    ELSE [st EXCEPT !.disk = m.disk, !.failed_count = @ + 1,
                    !.errors = Append(@, [kind |-> "failed",
                                          path |-> entry.original_path])]

\* Lines 273-316: what is at the original path is removed (force), the
\* parent of the original path is created, the trashed copy is moved back.
RestoreMove(st, entry) ==
    RestoreMoved(st, entry,
        move_path_with_exdev_fallback(
            create_dir_all(remove_dir_all(st.disk, entry.original_path),
                           Parent(entry.original_path)),
            entry.trashed_path, entry.original_path))

\* The loop of restore_batch without the test for an existing original path:
\* whatever is there is removed as if force were set.
RestoreEntry_ignores_force(st, entry, dry_run, force) ==
    IF entry.trashed_path \notin DOMAIN st.disk
    THEN [st EXCEPT !.skipped_count = @ + 1]
    ELSE IF dry_run
    THEN [st EXCEPT !.restored_count = @ + 1]
    ELSE RestoreMove(st, entry)

\* One iteration of the loop of restore_batch (lines 246-317).
RestoreEntry(st, entry, dry_run, force) ==
    IF entry.trashed_path \notin DOMAIN st.disk
    THEN [st EXCEPT !.skipped_count = @ + 1]
    ELSE IF entry.original_path \in DOMAIN st.disk /\ ~force
    THEN [st EXCEPT !.skipped_count = @ + 1,
                    !.errors = Append(@, [kind |-> "exists",
                                          path |-> entry.original_path])]
    ELSE IF dry_run
    THEN [st EXCEPT !.restored_count = @ + 1]
    ELSE RestoreMove(st, entry)

RECURSIVE RestoreLoop(_, _, _, _)
RestoreLoop(st, entries, dry_run, force) ==
    IF Len(entries) = 0 THEN st
    ELSE RestoreLoop(RestoreEntry(st, Head(entries), dry_run, force),
                     Tail(entries), dry_run, force)

\* restore_batch on the entries of the batch, sorted (lines 224-239).
restore_entries(entries, dry_run, force) ==
    IF Len(entries) = 0
    THEN [RestoreStart(disk) EXCEPT
            !.errors = << [kind |-> "no entries", path |-> << >>] >>]
    ELSE RestoreLoop(RestoreStart(disk), entries, dry_run, force)

restore_batch(batch_id, dry_run, force) ==
    restore_entries(DeeperFirst(EntriesOf(batch_id), MaxDepth), dry_run, force)

RestoreDone(batch_id, dry_run, force, st) ==
    /\ disk' = st.disk
    /\ trash_ret' = [op |-> "restore_batch", batch_id |-> batch_id,
                     dry_run |-> dry_run, force |-> force,
                     restored_count |-> st.restored_count,
                     skipped_count |-> st.skipped_count,
                     failed_count |-> st.failed_count,
                     errors |-> st.errors]

\* A call of restore_batch.
RestoreBatch(batch_id, dry_run, force) ==
    /\ phase = "trash"
    /\ RestoreDone(batch_id, dry_run, force, restore_batch(batch_id, dry_run, force))
    /\ UNCHANGED <<scanVars, cross_device, trash_log, now>>

\* Duration::num_days of a span given in half days: whole days, truncated.
num_days(span) == span \div 2

saturating_sub(a, b) == IF a < b THEN 0 ELSE a - b

RECURSIVE SumSizes(_)
SumSizes(entries) ==
    IF Len(entries) = 0 THEN 0
    ELSE Head(entries).size + SumSizes(Tail(entries))

RECURSIVE MinCreated(_)
MinCreated(entries) ==
    IF Len(entries) = 1 THEN entries[1].created_at
    ELSE IF entries[1].created_at < MinCreated(Tail(entries))
         THEN entries[1].created_at
         ELSE MinCreated(Tail(entries))

TrashBatchSummary(batch_id, entries) ==
    [batch_id |-> batch_id, created_at |-> MinCreated(entries),
     entries_count |-> Len(entries), total_size |-> SumSizes(entries)]

\* summarize_batches: one summary for every batch the log names (the order
\* of the HashMap's values is not kept: a set).
summarize_batches ==
    { TrashBatchSummary(b, EntriesOf(b)) : b \in { e.batch_id : e \in Range(trash_log) } }

RECURSIVE SumTotal(_)
SumTotal(summaries) ==
    IF summaries = {} THEN 0
    ELSE LET s == CHOOSE x \in summaries : TRUE
         IN  s.total_size + SumTotal(summaries \ {s})

RECURSIVE SumEntries(_)
SumEntries(summaries) ==
    IF summaries = {} THEN 0
    ELSE LET s == CHOOSE x \in summaries : TRUE
         IN  s.entries_count + SumEntries(summaries \ {s})

\* Lines 417-425: the batches older than keep_days.
OlderThan(summaries, keep_days) ==
    IF ~IsSome(keep_days) THEN {}
    ELSE { s \in summaries : num_days(now - s.created_at) > Unwrap(keep_days) }

\* candidates.sort_by(created_at): the orders a stable sort of a list in
\* arbitrary order can produce, oldest first.
OldestFirstOrders(candidates) ==
    { ord \in [1..Cardinality(candidates) -> candidates] :
        /\ \A i, j \in DOMAIN ord : i # j => ord[i] # ord[j]
        /\ \A i, j \in DOMAIN ord : i < j => ord[i].created_at <= ord[j].created_at }

\* Lines 449-457: the oldest candidates are taken until the bytes left are
\* within the limit or no candidate is left.
RECURSIVE TakeOldest(_, _, _, _)
TakeOldest(candidates, bytes_after, limit, taken) ==
    IF bytes_after <= limit \/ Len(candidates) = 0
    THEN [selected |-> taken, bytes_after |-> bytes_after]
    ELSE TakeOldest(Tail(candidates),
                    saturating_sub(bytes_after, Head(candidates).total_size),
                    limit, taken \cup {Head(candidates)})

\* The keep-bytes cap taking the oldest remaining batches whether or not
\* keep_days is set.
EnforceKeepBytes_ignores_keep_days(old, bytes_after, keep_days, keep_bytes, order) ==
    IF ~IsSome(keep_bytes) \/ bytes_after <= Unwrap(keep_bytes)
    THEN [selected |-> old, bytes_after |-> bytes_after, blocked_by_keep_days |-> FALSE]
    ELSE [selected |-> TakeOldest(order, bytes_after, Unwrap(keep_bytes), old).selected,
          bytes_after |-> TakeOldest(order, bytes_after, Unwrap(keep_bytes), old).bytes_after,
          blocked_by_keep_days |-> FALSE]

\* Lines 434-460: the keep-bytes cap applied after the keep-days selection.
EnforceKeepBytes(old, bytes_after, keep_days, keep_bytes, order) ==
    IF ~IsSome(keep_bytes) \/ bytes_after <= Unwrap(keep_bytes)
    THEN [selected |-> old, bytes_after |-> bytes_after, blocked_by_keep_days |-> FALSE]
    ELSE IF IsSome(keep_days)
    THEN [selected |-> old, bytes_after |-> bytes_after, blocked_by_keep_days |-> TRUE]
    ELSE [selected |-> TakeOldest(order, bytes_after, Unwrap(keep_bytes), old).selected,
          bytes_after |-> TakeOldest(order, bytes_after, Unwrap(keep_bytes), old).bytes_after,
          blocked_by_keep_days |-> FALSE]

\* The selection of gc_trash (lines 411-460); order: the sorted candidates.
gc_select(summaries, old, keep_days, keep_bytes, order) ==
    EnforceKeepBytes(old, saturating_sub(SumTotal(summaries), SumTotal(old)),
                     keep_days, keep_bytes, order)

\* gc_trash from the selection on: a dry run reports it (lines 462-476);
\* otherwise the batch directories are removed and the log is rewritten
\* without their entries (lines 478-537).
RECURSIVE RemoveBatchDirs(_, _)
RemoveBatchDirs(d, ids) ==
    IF ids = {} THEN d
    ELSE LET b == CHOOSE x \in ids : TRUE
         IN  RemoveBatchDirs(remove_dir_all(d, BatchDir(b)), ids \ {b})

GcDone(keep_days, keep_bytes, dry_run, total_bytes, sel, ids) ==
    /\ disk' = IF dry_run THEN disk ELSE RemoveBatchDirs(disk, ids)
    /\ trash_log' = IF dry_run THEN trash_log
                    ELSE SelectSeq(trash_log, LAMBDA e : e.batch_id \notin ids)
    /\ trash_ret' = [op |-> "gc_trash", keep_days |-> keep_days,
                     keep_bytes |-> keep_bytes, dry_run |-> dry_run,
                     selected |-> ids,
                     removed_batches |-> Cardinality(sel.selected),
                     removed_entries |-> SumEntries(sel.selected),
                     removed_bytes |-> SumTotal(sel.selected),
                     remaining_bytes |->
                         IF dry_run THEN sel.bytes_after
                         ELSE saturating_sub(total_bytes, SumTotal(sel.selected)),
                     target_keep_bytes |-> keep_bytes,
                     blocked_by_keep_days |-> sel.blocked_by_keep_days,
                     failed_batches |-> 0]

GcWith(keep_days, keep_bytes, dry_run, summaries, old) ==
    \E order \in OldestFirstOrders(summaries \ old) :
        GcDone(keep_days, keep_bytes, dry_run, SumTotal(summaries),
               gc_select(summaries, old, keep_days, keep_bytes, order),
               { s.batch_id :
                   s \in gc_select(summaries, old, keep_days, keep_bytes, order).selected })

KeepDaysChoices == { NoneOpt, Some(0), Some(1) }
KeepBytesChoices == { NoneOpt, Some(0), Some(2) }

\* A call of gc_trash.
GcTrash(keep_days, keep_bytes, dry_run) ==
    /\ phase = "trash"
    /\ GcWith(keep_days, keep_bytes, dry_run, summarize_batches,
              OlderThan(summarize_batches, keep_days))
    /\ UNCHANGED <<scanVars, cross_device, now>>

\* The originals on disk before anything is trashed, each with the content
\* it had from the start ("old"); the trash root holds the batch directory
\* of two TrashManagers.
InitialDisks ==
    { [p \in S \cup { <<"/">>, TrashRoot } \cup { BatchDir(b) : b \in BatchIds } |->
          IF p \in S THEN "old" ELSE "mk"] :
      S \in { { <<"/", "a">>, <<"/", "c">> }, Originals } }

InitTrash ==
    /\ history = << >>
    /\ send_errors = 0
    /\ timer = NoTimer
    /\ files = Layout({}, {}, {})
    /\ ignore_file = IgnoreAt(<<"w", "p">>, << >>)
    /\ meta_fail = {}
    /\ file_fail = {}
    /\ scanner = NewScanner(<<"w">>, << >>)
    /\ fast_mode = TRUE
    /\ WalkInit(<<"w">>)
    /\ phase = "trash"
    /\ slow_dirs = {}
    /\ SizeInit(<< >>, DefaultTimeoutSecs)
    /\ single = NoSingle
    /\ CallsInit
    /\ disk \in InitialDisks
    /\ cross_device \in BOOLEAN
    /\ trash_log = << >>
    /\ now = 0
    /\ trash_ret = NoTrashCall

\* Trashing, rebuilding and restoring.
NextTrash ==
    \/ \E b \in BatchIds, o \in Originals : TrashDir(b, o, 1)
    \/ \E o \in Originals : Recreate(o)
    \/ \E b \in BatchIds, dry_run \in BOOLEAN, force \in BOOLEAN :
          RestoreBatch(b, dry_run, force)

SpecTrash == InitTrash /\ [][NextTrash]_vars

\* Trashing over time and collecting the trash.
GcOriginals == { <<"/", "a">>, <<"/", "c">> }

NextGc ==
    \/ \E b \in BatchIds, o \in GcOriginals, size \in TrashSizes : TrashDir(b, o, size)
    \/ Tick
    \/ \E keep_days \in KeepDaysChoices, keep_bytes \in KeepBytesChoices,
          dry_run \in BOOLEAN : GcTrash(keep_days, keep_bytes, dry_run)

\* One device, every original on disk.
InitGc ==
    /\ InitTrash
    /\ ~cross_device
    /\ Originals \subseteq DOMAIN disk

SpecGc == InitGc /\ [][NextGc]_vars

BatchEntries(log, batch_id) == SelectSeq(log, LAMBDA e : e.batch_id = batch_id)

\* The entries of a batch whose trashed copy is in the trash on disk d.
InTrash(d, entries) == { i \in DOMAIN entries : entries[i].trashed_path \in DOMAIN d }

TrashDirPost(batch_id, original) ==
    /\ original \notin DOMAIN disk'
    /\ Len(BatchEntries(trash_log', batch_id)) = Len(BatchEntries(trash_log, batch_id)) + 1
    /\ Len(trash_log') = Len(trash_log) + 1
    /\ trash_log'[Len(trash_log')].original_path = original
    /\ trash_log'[Len(trash_log')].trashed_path \in DOMAIN disk'
    /\ disk'[trash_log'[Len(trash_log')].trashed_path] = disk[original]

RestorePost(entries) ==
    /\ \A i \in InTrash(disk, entries) :
        /\ entries[i].original_path \in DOMAIN disk'
        /\ entries[i].original_path \notin DOMAIN disk =>
              /\ entries[i].trashed_path \notin DOMAIN disk'
              /\ disk'[entries[i].original_path] = disk[entries[i].trashed_path]
    /\ trash_ret'.restored_count =
          Cardinality({ entries[i].trashed_path : i \in InTrash(disk, entries) }
                          \ DOMAIN disk')

\* C23 (trash round trip): a trash_dir that succeeds leaves the original
\* path absent, its content at the trashed path and one more log entry for
\* the batch; a restore_batch that is not a dry run leaves every entry of
\* the batch whose copy was in the trash with its original path on disk,
\* moves back every such entry whose original path was absent, and returns
\* as restored_count the number of trashed copies it moved out of the trash.
C23_RoundTrip ==
    [][ /\ \A b \in BatchIds, o \in Originals :
            (TrashDir(b, o, 1) /\ trash_ret'.ok) => TrashDirPost(b, o)
        /\ \A b \in BatchIds, force \in BOOLEAN :
            RestoreBatch(b, FALSE, force) => RestorePost(BatchEntries(trash_log, b))
      ]_vars

\* Some built-in pattern of the target's ecosystem matches it at its root.
BuiltinHit(e) ==
    FirstMatch(cleanable_dirs(e.project_type), file_name(e.cleanable_dir),
               normalize_relative_path(e.cleanable_dir, e.root)) # 0

\* Some pattern of the ignore file of the target's root matches it.
GitignoreHit(e) ==
    FirstMatch(parse_gitignore(e.root), file_name(e.cleanable_dir),
               normalize_relative_path(e.cleanable_dir, e.root)) # 0

\* C24 (Builtin over Gitignore attribution): a target emitted through the
\* ecosystem matcher is attributed to Builtin whenever a built-in pattern
\* matches it, also when an ignore-file pattern matches it too, and then has
\* the default risk of its category and confidence High; it is attributed to
\* Gitignore, with risk High and confidence Low, exactly when no built-in
\* pattern matches it and an ignore-file pattern does.
C24_BuiltinOverGitignore ==
    \A e \in emitted :
        e.matched_rule.source \in {"Builtin", "Gitignore"} =>
            /\ BuiltinHit(e) =>
                /\ e.matched_rule.source = "Builtin"
                /\ e.risk_level = PolicyRisk("Builtin", e.category)
                /\ e.confidence = "High"
            /\ e.matched_rule.source = "Gitignore" <=> (~BuiltinHit(e) /\ GitignoreHit(e))
            /\ e.matched_rule.source = "Gitignore" =>
                /\ e.risk_level = "High"
                /\ e.confidence = "Low"

\* C24 witness: a target matched by a built-in and by an ignore-file pattern
\* was emitted as Builtin with a risk below High, and another one matched
\* by the ignore file only was emitted as Gitignore.
C24_Witness ==
    /\ \E e \in emitted :
        /\ BuiltinHit(e) /\ GitignoreHit(e)
        /\ e.matched_rule.source = "Builtin"
        /\ e.risk_level = "Medium"
    /\ \E e \in emitted :
        /\ ~BuiltinHit(e) /\ GitignoreHit(e)
        /\ e.matched_rule.source = "Gitignore"

\* The size computation is at one of its expiry tests: the entry it is about
\* to count is a CheckEvery-th one, or the traversal is over.
AtExpiryTest ==
    /\ timer.pc = "loop"
    /\ \/ (timer.checked_entries + 1) % CheckEvery = 0
       \/ timer.checked_entries = timer.entries

C25_ResultState ==
    timer.pc = "done" =>
        /\ timeout_secs = 0 =>
              ~timer.result.ok /\ timer.checked_entries = 0 /\ timer.elapsed = 0
        /\ timer.result.ok =>
              timer.elapsed < timeout_secs /\ timer.checked_entries = timer.entries
        /\ (~timer.result.ok /\ timeout_secs # 0) =>
              /\ timer.result.err = "timeout"
              /\ timer.elapsed >= timeout_secs
              /\ \/ timer.checked_entries % CheckEvery = 0
                 \/ timer.checked_entries = timer.entries

FilterMinSizes == { NoneOpt, Some(4), Some(8) }
FilterCategories == { None, "Build", "Deps" }
FilterRisks == { None, "Low", "Medium" }

InitFilter ==
    /\ history = << >>
    /\ send_errors = 0
    /\ NoTrash
    /\ timer = NoTimer
    /\ \E w \in StreamW, p \in StreamP : files = Layout(w, p, {"CMakeCache.txt"})
    /\ ignore_file = IgnoreAt(<<"w", "p">>, << >>)
    /\ meta_fail = {}
    /\ file_fail = {}
    /\ \E m \in FilterMinSizes, c \in FilterCategories, r \in FilterRisks :
        scanner = [NewScanner(<<"w">>, << >>)
                     EXCEPT !.min_size = m, !.category_filter = c, !.max_risk = r]
    /\ WalkInit(<<"w">>)
    /\ fast_mode \in BOOLEAN
    /\ phase = "walk"
    /\ slow_dirs = {}
    /\ SizeInit(<< >>, DefaultTimeoutSecs)
    /\ single = NoSingle
    /\ CallsInit

NextFilter ==
    \/ Take
    \/ \E d \in Dirs : Visit(d)
    \/ ScanReturn
    \/ StreamReturn
    \/ SizeTake
    \/ \E i \in DOMAIN projects : SizeCalc(i)
    \/ \E i \in DOMAIN projects : SizeSend(i)
    \/ BatchReturn
    \/ Recv
    \/ RecvEnd

SpecFilter == InitFilter /\ [][NextFilter]_vars

BelowMinSize(p) ==
    /\ IsSome(scanner.min_size)
    /\ p.size_calculated
    /\ p.size < Unwrap(scanner.min_size)

\* C26 (min-size filter in streaming mode): no target whose calculated size
\* is below min_size is delivered on the receiver of scan_with_streaming,
\* and none is returned by scan().
C26_MinSizeApplied ==
    /\ \A p \in Delivered : ~BelowMinSize(p)
    /\ phase = "returned" => \A p \in Range(returned) : ~BelowMinSize(p)

\* The entries of a batch whose original path exists on disk d while their
\* trashed copy is in the trash.
Blocked(d, entries) ==
    { i \in InTrash(d, entries) : entries[i].original_path \in DOMAIN d }

\* What restore_batch without force leaves of the entries it finds blocked:
\* the original path and all below it as they were, the trashed copy in the
\* trash, an error message for the path, and the entry counted as skipped.
NoOverwritePost(entries) ==
    /\ \A i \in Blocked(disk, entries) :
        /\ \A q \in Under(disk, entries[i].original_path) :
              q \in DOMAIN disk' /\ disk'[q] = disk[q]
        /\ entries[i].trashed_path \in DOMAIN disk'
        /\ disk'[entries[i].trashed_path] = disk[entries[i].trashed_path]
        /\ [kind |-> "exists", path |-> entries[i].original_path]
              \in Range(trash_ret'.errors)
    /\ trash_ret'.skipped_count >= Cardinality(Blocked(disk, entries))
    /\ Len(SelectSeq(trash_ret'.errors, LAMBDA e : e.kind = "exists"))
          >= Cardinality(Blocked(disk, entries))

\* C27 (restore never overwrites without force): restore_batch with
\* force = false leaves every existing original path of the batch, and what
\* is below it, as it was, counts the entry as skipped with an error message
\* and leaves its trashed copy in the trash; with dry_run = true the disk is
\* left as it was whatever the value of force.
C27_NoOverwrite ==
    [][ /\ \A b \in BatchIds, dry_run \in BOOLEAN :
            RestoreBatch(b, dry_run, FALSE) => NoOverwritePost(BatchEntries(trash_log, b))
        /\ \A b \in BatchIds, force \in BOOLEAN :
            RestoreBatch(b, TRUE, force) => disk' = disk
      ]_vars

\* C27 witness: a restore without force has moved one entry back and skipped
\* another whose original path had been created again.
C27_Witness ==
    /\ trash_ret.op = "restore_batch"
    /\ ~trash_ret.force
    /\ ~trash_ret.dry_run
    /\ trash_ret.restored_count = 1
    /\ trash_ret.skipped_count = 1
    /\ \E e \in Range(trash_ret.errors) :
        /\ e.kind = "exists"
        /\ e.path \in DOMAIN disk
        /\ disk[e.path] = "new"
        /\ \E t \in Range(trash_log) :
            t.original_path = e.path /\ t.trashed_path \in DOMAIN disk

\* The batches the log names, the time of the oldest entry of a batch and
\* the bytes its entries add up to.
LoggedBatches == { e.batch_id : e \in Range(trash_log) }

BatchCreated(b) ==
    CHOOSE t \in 0..MaxNow :
        /\ \E e \in Range(trash_log) : e.batch_id = b /\ e.created_at = t
        /\ \A e \in Range(trash_log) : e.batch_id = b => e.created_at >= t

BatchBytes(b) == SumSizes(BatchEntries(trash_log, b))

RECURSIVE BytesOf(_)
BytesOf(ids) ==
    IF ids = {} THEN 0
    ELSE LET b == CHOOSE x \in ids : TRUE
         IN  BatchBytes(b) + BytesOf(ids \ {b})

\* The age of a batch in whole days.
AgeDays(b) == num_days(now - BatchCreated(b))

\* ids is what taking batches oldest first, one at a time, until at most
\* limit bytes remain or no batch is left, can select.
OldestUntilWithin(ids, limit) ==
    /\ ids \subseteq LoggedBatches
    /\ \A b \in ids, c \in LoggedBatches \ ids : BatchCreated(b) <= BatchCreated(c)
    /\ \/ BytesOf(LoggedBatches \ ids) <= limit
       \/ ids = LoggedBatches
    /\ \/ ids = {}
       \/ \E b \in ids :
            /\ \A c \in ids : BatchCreated(c) <= BatchCreated(b)
            /\ BytesOf(LoggedBatches \ (ids \ {b})) > limit

GcSelectionPost(keep_days, keep_bytes, dry_run) ==
    /\ IsSome(keep_days) =>
        /\ trash_ret'.selected = { b \in LoggedBatches : AgeDays(b) > Unwrap(keep_days) }
        /\ trash_ret'.blocked_by_keep_days
              = ( /\ IsSome(keep_bytes)
                  /\ BytesOf(LoggedBatches \ trash_ret'.selected) > Unwrap(keep_bytes) )
    /\ (~IsSome(keep_days) /\ IsSome(keep_bytes)) =>
        /\ OldestUntilWithin(trash_ret'.selected, Unwrap(keep_bytes))
        /\ ~trash_ret'.blocked_by_keep_days
    /\ ~dry_run =>
        { e.batch_id : e \in Range(trash_log') } = LoggedBatches \ trash_ret'.selected

\* C28 (trash GC respects keep-days): with keep_days set, gc_trash selects
\* exactly the batches whose age in whole days exceeds keep_days, never a
\* newer one, and reports blocked_by_keep_days when the bytes that remain
\* exceed keep_bytes; with keep_days unset and keep_bytes set it selects
\* batches oldest first until the bytes that remain are within keep_bytes or
\* no batch is left.
C28_GcKeepDays ==
    [][ ( /\ trash_ret'.op = "gc_trash"
          /\ GcTrash(trash_ret'.keep_days, trash_ret'.keep_bytes, trash_ret'.dry_run) )
            => GcSelectionPost(trash_ret'.keep_days, trash_ret'.keep_bytes,
                               trash_ret'.dry_run)
      ]_vars

\* C28 witness: a gc_trash with keep_days and keep_bytes set removed one
\* batch, kept a newer one in the log and reported blocked_by_keep_days.
C28_Witness ==
    /\ trash_ret.op = "gc_trash"
    /\ IsSome(trash_ret.keep_days)
    /\ IsSome(trash_ret.keep_bytes)
    /\ ~trash_ret.dry_run
    /\ trash_ret.removed_batches = 1
    /\ trash_ret.blocked_by_keep_days
    /\ Len(trash_log) >= 1

MatchingRoots(dir, roots) == { i \in DOMAIN roots : RuleMatchesAt(dir, roots[i]) }

\* e carries the root, ecosystem and rule of the match at candidate root a:
\* the first custom pattern that applies there (c), else the ecosystem.
AttributedTo(e, a, c) ==
    /\ e.root = a
    /\ IF c # 0
       THEN /\ e.project_type = "Generic"
            /\ e.matched_rule = RuleRef("Custom", scanner.custom_patterns[c].directory,
                                        scanner.custom_patterns[c].name)
       ELSE /\ e.project_type = detect(a)
            /\ e.matched_rule = matched_rule(build_matchers(detect(a), a),
                                             file_name(e.cleanable_dir),
                                             normalize_relative_path(e.cleanable_dir, a))

NearestWins(e, roots, hits) ==
    IF e.matched_rule.source = "Heuristic" THEN hits = {}
    ELSE /\ hits # {}
         /\ \E k \in hits :
              /\ \A j \in hits : k <= j
              /\ AttributedTo(e, roots[k], FirstCustom(e.cleanable_dir, roots[k]))

\* C30 (nearest matching ancestor wins): the root, ecosystem and matched
\* rule of every emitted target are those of the nearest ancestor, among
\* the ones the rule loop tries, at which a rule matches the directory, and
\* there those of the first custom pattern in configuration order that
\* applies, else those of the ecosystem matcher; the CMake heuristic
\* attributes a target only when no rule matches at any of them.
C30_NearestAncestorWins ==
    \A e \in emitted :
        NearestWins(e, RuleLoopRoots(e.cleanable_dir),
                    MatchingRoots(e.cleanable_dir, RuleLoopRoots(e.cleanable_dir)))

\* C30 witness: rules match a target at its parent and at its grandparent,
\* with different attributions, and the target carries the parent's.
C30_Witness ==
    \E e \in emitted :
        /\ Len(e.cleanable_dir) = 3
        /\ RuleMatchesAt(e.cleanable_dir, Parent(e.cleanable_dir))
        /\ RuleMatchesAt(e.cleanable_dir, Parent(Parent(e.cleanable_dir)))
        /\ FirstCustom(e.cleanable_dir, Parent(Parent(e.cleanable_dir))) # 0
        /\ e.root = Parent(e.cleanable_dir)
        /\ e.matched_rule.source = "Builtin"

====
